---- MODULE Spec2Model ----
(***************************************************************************)
(* Voice-turn orchestration of the parle application: the Gemini service   *)
(* (sendVoiceMessage and its session state), the shared conversation       *)
(* history, the OpenAI service as the second backend, the browser's blob   *)
(* URL registry, and the App handlers that call them.                      *)
(*                                                                         *)
(* One action is one task of the JavaScript event loop: a user gesture or  *)
(* the arrival of a network response, together with every synchronous      *)
(* statement and every promise continuation (microtask) that follows it.   *)
(***************************************************************************)
EXTENDS Integers, Sequences, FiniteSets, TLC

\* ------------------------------------------------------------------ bounds
\* Characters in the largest scenario a run sets up.
MaxChars == 2
\* Entries in the characterResponses array of one chat reply.
MaxResp == 2
\* sendVoiceMessage calls started in one run.
MaxTurns == 2
\* sendVoiceMessageOpenAI calls started in one run.
MaxOther == 1
\* Characters of the largest scenario, and entries of the longest chat reply,
\* of a sendVoiceMessage call taken on its own (SpecCall).
\* stopRecording() promises pending at one time.
MaxStops == 2
CallMaxChars == 3
CallMaxResp == 3
MaxLog == 4
MaxDesc == 3

\* ------------------------------------------------------------------ values
\* A nullable value is a sequence of length 0 (null) or 1.
Null == <<>>
Some(x) == <<x>>

\* A Scenario, reduced to the length of its characters array.
Scenarios == 1..MaxChars

\* Texts are sequences of one-character strings.
Space == " "
\* The transcriptions the transcription model returns: "", " ", "u".
Transcripts == {<<>>, <<Space>>, <<"u">>}

\* `${a} ${b}`
Join(a, b) == a \o <<Space>> \o b

RECURSIVE TrimStart(_)
TrimStart(s) == IF s # <<>> /\ Head(s) = Space THEN TrimStart(Tail(s)) ELSE s

RECURSIVE TrimEnd(_)
TrimEnd(s) ==
    IF s # <<>> /\ s[Len(s)] = Space THEN TrimEnd(SubSeq(s, 1, Len(s) - 1)) ELSE s

\* String.prototype.trim
Trim(s) == TrimEnd(TrimStart(s))

\* ChatMessage of the shared history
Entry(role, content) == [role |-> role, content |-> content]

\* The texts a chat reply carries for one response.
FrenchTexts == {<<"f">>}
EnglishTexts == {<<"e">>}

\* The characterName of a reply entry is a string: the word is one symbol, a
\* digit or a white space another.
Digits == <<"0", "1", "2", "3", "4", "5", "6", "7", "8", "9">>
IsDigit(c) == \E d \in DOMAIN Digits : Digits[d] = c
DigitValue(c) == (CHOOSE d \in DOMAIN Digits : Digits[d] = c) - 1

\* `Character ${n}`
CharacterLabel(n) == <<"Character", Space, Digits[n + 1]>>
NoLabel == <<>>
Labels == {<<"Baker">>} \cup {CharacterLabel(n) : n \in 0..(MaxChars + 1)}

\* An audio handle (blob URL): the synthesis request that produced it.
Handle(t, i) == [turn |-> t, idx |-> i]

VARIABLES
    \* services/apiKeyService: getApiKeyOrEnv('gemini') is non-null
    apiKey,
    \* services/conversationHistory
    conversationHistory,
    \* services/geminiService: module state
    ai, chatSession, syncedMessageCount, activeScenario, pendingScenario, pendingHistory,
    \* the browser: blob URLs created and not revoked
    blobUrls,
    \* synthesis requests sent to the TTS model and not yet answered (idx > 0);
    \* with idx 0, the request a superseded call still awaits
    requests,
    \* App: React state and refs
    appState, processingAborted, abortController, canRetryChatAudio, lastChatAudio,
    messages, stopping, starting,
    \* App and components/ConversationHistory: the auto-play state and the audio
    \* elements of the messages
    player,
    \* the sendVoiceMessage call in flight (or the last one that ended)
    turnNo, pc, signalAborted, outcome, userText, parsed, audio,
    \* the sendVoiceMessageOpenAI call in flight
    oaPc, oaTurns, oaUserText,
    \* App: the scenario setup modal and its description recording
    setup,
    \* history variables of the sendVoiceMessage call (not program state)
    h

svcVars == <<ai, chatSession, syncedMessageCount, activeScenario, pendingScenario, pendingHistory>>
appVars == <<appState, processingAborted, abortController, canRetryChatAudio, lastChatAudio,
             messages, stopping, starting, player>>
turnVars == <<turnNo, pc, signalAborted, outcome, userText, parsed, audio>>
oaVars == <<oaPc, oaTurns, oaUserText>>
vars == <<apiKey, conversationHistory, svcVars, blobUrls, requests, appVars, turnVars, oaVars,
          setup, h>>

\* ------------------------------------------------- services/conversationHistory
getConversationHistory == conversationHistory

addToHistory(history, role, content) == Append(history, Entry(role, content))

clearHistory == <<>>

\* conversationHistory = [...history]
setHistory(history) == history

\* ------------------------------------------------------ services/geminiService
\* The module state as one record; creates counts the ai.chats.create calls made
\* while an operation runs (its callers pass 0).
Svc ==
    [ai |-> ai, chatSession |-> chatSession, syncedMessageCount |-> syncedMessageCount,
     activeScenario |-> activeScenario, pendingScenario |-> pendingScenario,
     pendingHistory |-> pendingHistory, creates |-> 0]

\* ai.chats.create({config, history}): the session starts from the history it is
\* given; recorded counts the exchanges (the message sent and the model's answer)
\* it has added to its context since
Chat(scenario, history) == [scenario |-> scenario, history |-> history, recorded |-> 0]

\* chatSession.sendMessage is answered: the session object the message was sent
\* on keeps the exchange; live tells whether that object is still the module's
\* chatSession; an answer without text is not kept
Recorded(chat, reply, live) ==
    IF live /\ chat # Null /\ reply.kind # "empty"
      THEN Some([chat[1] EXCEPT !.recorded = @ + 1])
      ELSE chat

\* createChatSession without lines 73-76: the counter is zeroed whatever the seed.
createChatSession_ZeroCount(s) ==
    IF ~s.ai THEN s
    ELSE [s EXCEPT
            !.chatSession = Some(Chat(s.activeScenario,
                                      IF s.pendingHistory # Null THEN s.pendingHistory[1]
                                                                 ELSE <<>>)),
            !.syncedMessageCount = 0,
            !.pendingHistory = Null,
            !.creates = s.creates + 1]

createChatSession(s) ==
    IF ~s.ai THEN s
    ELSE [s EXCEPT
            !.chatSession = Some(Chat(s.activeScenario,
                                      IF s.pendingHistory # Null THEN s.pendingHistory[1]
                                                                 ELSE <<>>)),
            !.syncedMessageCount = IF s.pendingHistory # Null THEN Len(s.pendingHistory[1])
                                                              ELSE 0,
            !.pendingHistory = Null,
            !.creates = s.creates + 1]

\* A reset that returns at once when the scenario is the one already active.
resetSession_SkipsSameScenario(s, scenario, history) ==
    IF scenario = s.activeScenario THEN s
    ELSE LET s1 == [s EXCEPT !.activeScenario = scenario, !.pendingScenario = scenario]
             s2 == IF history # Null
                     THEN [s1 EXCEPT !.pendingHistory = history]
                     ELSE [s1 EXCEPT !.syncedMessageCount = 0, !.pendingHistory = Null]
         IN  IF s2.ai THEN createChatSession(s2) ELSE s2

resetSession(s, scenario, history) ==
    LET s1 == [s EXCEPT !.activeScenario = scenario, !.pendingScenario = scenario]
        s2 == IF history # Null
                THEN [s1 EXCEPT !.pendingHistory = history]
                ELSE [s1 EXCEPT !.syncedMessageCount = 0, !.pendingHistory = Null]
    IN  IF s2.ai THEN createChatSession(s2) ELSE s2

setScenario(s, scenario) == resetSession(s, scenario, Null)

\* ensureAiInitialized throws "Missing Gemini API Key"
ensureAiThrows(s, key) == ~s.ai /\ ~key

ensureAiInitialized(s, key) == IF s.ai THEN s ELSE [s EXCEPT !.ai = key]

\* initializeSession; when ensureAiInitialized throws the state is left as it was
initializeSession(s, key) ==
    IF ensureAiThrows(s, key) THEN s
    ELSE LET s1 == ensureAiInitialized(s, key)
             s2 == IF s1.pendingScenario # Null
                     THEN [s1 EXCEPT !.activeScenario = s1.pendingScenario]
                     ELSE s1
         IN  createChatSession(s2)

\* the module state after an operation
SvcBecomes(s) ==
    /\ ai' = s.ai
    /\ chatSession' = s.chatSession
    /\ syncedMessageCount' = s.syncedMessageCount
    /\ activeScenario' = s.activeScenario
    /\ pendingScenario' = s.pendingScenario
    /\ pendingHistory' = s.pendingHistory

\* ------------------------------------------------- sendVoiceMessage: the reply
\* rawModelText, by what the parsers make of it:
\*   "empty"  no text;  "text"  prose, not JSON;  "single"  {french, english, hint};
\*   "multi"  {characterResponses: [...]};  "other"  JSON of another shape.
\* An entry of characterResponses; its optional hint is absent unless given.
Response(label, french, english) ==
    [label |-> label, french |-> french, english |-> english, hint |-> Null]

ResponseSeqs(labels) ==
    UNION {[1..n -> {Response(l, f, e) : l \in labels, f \in FrenchTexts, e \in EnglishTexts}]
           : n \in 0..MaxResp}

\* The chat response; its top-level hint is absent unless given.
Reply(kind, responses) == [kind |-> kind, responses |-> responses, hint |-> Null]

Replies ==
    {Reply("empty", <<>>)}
    \cup {Reply(k, <<Response(NoLabel, f, e)>>) :
            k \in {"text", "single", "other"}, f \in FrenchTexts, e \in EnglishTexts}
    \cup {Reply("multi", rs) : rs \in ResponseSeqs(Labels)}

\* The replies of a call taken on its own: labels up to one past the largest
\* scenario, and French texts with surrounding white space, one of them empty
\* once trimmed.
CallLabels == {<<"Baker">>} \cup {CharacterLabel(n) : n \in 0..(CallMaxChars + 1)}
CallFrenchTexts == {<<Space, "g">>, <<Space>>}

CallReplies ==
    {Reply("empty", <<>>)}
    \cup {Reply(k, <<Response(NoLabel, f, e)>>) :
            k \in {"text", "single", "other"}, f \in FrenchTexts, e \in EnglishTexts}
    \cup {Reply("multi", rs) :
            rs \in UNION {[1..n -> {Response(l, f, e) :
                                      l \in CallLabels, f \in CallFrenchTexts, e \in EnglishTexts}]
                          : n \in 0..CallMaxResp}}

\* activeScenario && activeScenario.characters && activeScenario.characters.length > 1
IsMultiCharacter(scenario) == scenario # Null /\ scenario[1] > 1

\* the i flag of the pattern, on the symbols of a label
toLowerCase(c) == IF c = "Character" THEN "character" ELSE c

\* resp.characterName.trim().match(/^character\s+(\d+)$/i): the digits matched,
\* or Null
MatchLabel(characterName) ==
    LET label == Trim(characterName)
        digits == TrimStart(Tail(label))
    IN  IF /\ Len(label) >= 3
           /\ toLowerCase(label[1]) = "character"
           /\ label[2] = Space
           /\ digits # <<>>
           /\ \A i \in DOMAIN digits : IsDigit(digits[i])
          THEN Some(digits)
          ELSE Null

RECURSIVE parseInt(_)
\* parseInt(match[1], 10) of a string of digits
parseInt(digits) ==
    IF digits = <<>> THEN 0
    ELSE 10 * parseInt(SubSeq(digits, 1, Len(digits) - 1)) + DigitValue(digits[Len(digits)])

\* parseInt(match[1], 10) - 1
LabelIndex(characterName) == parseInt(MatchLabel(characterName)[1]) - 1

\* (variant: the index is not checked against the number of characters)
LabelResolves_NoRangeCheck(characterName, scenario) ==
    /\ MatchLabel(characterName) # Null
    /\ LabelIndex(characterName) >= 0

\* the label matches and its index is in the range of the scenario's characters
LabelResolves(characterName, scenario) ==
    /\ MatchLabel(characterName) # Null
    /\ LabelIndex(characterName) >= 0
    /\ LabelIndex(characterName) < scenario[1]

CharacterTurn(id, french, english) == [characterId |-> id, french |-> french, english |-> english]

\* validated.characterResponses.map(...): the character of index LabelIndex, the
\* characters of a scenario being numbered from 1
characterResponses(responses) ==
    [i \in 1..Len(responses) |->
        CharacterTurn(LabelIndex(responses[i].label) + 1,
                      Trim(responses[i].french), Trim(responses[i].english))]

RECURSIVE MergeInto(_, _)
MergeInto(acc, rest) ==
    IF rest = <<>> THEN acc
    ELSE LET current == Head(rest) IN
         IF acc = <<>> THEN MergeInto(<<current>>, Tail(rest))
         ELSE LET lastResponse == acc[Len(acc)] IN
              IF lastResponse.characterId = current.characterId
                THEN MergeInto(
                        [acc EXCEPT ![Len(acc)] =
                            CharacterTurn(lastResponse.characterId,
                                          Join(lastResponse.french, current.french),
                                          Join(lastResponse.english, current.english))],
                        Tail(rest))
                ELSE MergeInto(Append(acc, current), Tail(rest))

\* characterResponses.reduce(...)
RECURSIVE MergeById(_, _)
MergeById(acc, rest) ==
    IF rest = <<>> THEN acc
    ELSE LET current == Head(rest) IN
         IF \E k \in DOMAIN acc : acc[k].characterId = current.characterId
           THEN LET k == CHOOSE k \in DOMAIN acc : acc[k].characterId = current.characterId
                IN  MergeById([acc EXCEPT ![k] =
                                  CharacterTurn(acc[k].characterId,
                                                Join(acc[k].french, current.french),
                                                Join(acc[k].english, current.english))],
                              Tail(rest))
           ELSE MergeById(Append(acc, current), Tail(rest))

\* (variant: an entry is merged into the earlier entry of its character, adjacent or not)
mergedCharacterResponses_ById(crs) == MergeById(<<>>, crs)

\* (variant: only the first two entries are merged when they share a character)
mergedCharacterResponses_FirstPair(crs) ==
    IF Len(crs) >= 2 /\ crs[1].characterId = crs[2].characterId
      THEN <<CharacterTurn(crs[1].characterId, Join(crs[1].french, crs[2].french),
                           Join(crs[1].english, crs[2].english))>>
           \o SubSeq(crs, 3, Len(crs))
      ELSE crs

\* (variant: nothing is merged)
mergedCharacterResponses_Unmerged(crs) == crs

mergedCharacterResponses(crs) == MergeInto(<<>>, crs)

\* services/scenarioService, parseMultiCharacterResponse: the same reduction on
\* entries that carry one text
RECURSIVE MergeText(_, _)
MergeText(acc, rest) ==
    IF rest = <<>> THEN acc
    ELSE LET current == Head(rest) IN
         IF acc = <<>> THEN MergeText(<<current>>, Tail(rest))
         ELSE LET lastResponse == acc[Len(acc)] IN
              IF lastResponse.characterId = current.characterId
                THEN MergeText([acc EXCEPT ![Len(acc)].text = Join(lastResponse.text, current.text)],
                               Tail(rest))
                ELSE MergeText(Append(acc, current), Tail(rest))

mergedResponses(crs) == MergeText(<<>>, crs)

RECURSIVE JoinAll(_)
\* texts.join(' ')
JoinAll(texts) ==
    IF texts = <<>> THEN <<>>
    ELSE IF Len(texts) = 1 THEN texts[1]
    ELSE Join(texts[1], JoinAll(Tail(texts)))

\* (variant: the English texts are left out)
combinedModelText_FrenchOnly(crs) == JoinAll([i \in 1..Len(crs) |-> crs[i].french])

\* parsed.characterResponses.map(cr => `${cr.french} ${cr.english}`).join(' ')
combinedModelText(crs) == JoinAll([i \in 1..Len(crs) |-> Join(crs[i].french, crs[i].english)])

\* parseFrenchEnglish(responseText) of services/scenarioService
parseFrenchEnglish(reply) ==
    IF reply.responses # <<>>
      THEN [french |-> reply.responses[1].french, english |-> reply.responses[1].english,
            combined |-> Join(reply.responses[1].french, reply.responses[1].english)]
      ELSE [french |-> <<"j">>, english |-> <<>>, combined |-> <<"j">>]

Parsed(error, path, turns, combined) ==
    [error |-> error, path |-> path, turns |-> turns, combined |-> combined, hint |-> Null]

\* a || b on optional strings: an absent or empty a gives b
Or(a, b) == IF a # Null /\ a[1] # <<>> THEN a ELSE b

\* validated.hint || validated.characterResponses[length - 1]?.hint
\*   || "Continue the conversation"
Hint(reply) ==
    LET n == Len(reply.responses) IN
    Or(reply.hint,
       Or(IF n > 0 THEN reply.responses[n].hint ELSE Null, Some(<<"Continue the conversation">>)))

NoParse == Parsed("none", "none", <<>>, <<>>)

\* From the chat response to the checkpoint before audio generation: the text
\* check, then parsing and validation by the arity of activeScenario.
ParseReply(reply, scenario) ==
    IF reply.kind = "empty" THEN Parsed("ChatResponseMissing", "none", <<>>, <<>>)
    ELSE IF IsMultiCharacter(scenario) THEN
        IF reply.kind # "multi" THEN Parsed("SchemaValidation", "multi", <<>>, <<>>)
        ELSE IF \E i \in 1..Len(reply.responses) :
                    ~LabelResolves(reply.responses[i].label, scenario)
            THEN Parsed("SchemaValidation", "multi", <<>>, <<>>)
        ELSE LET merged == mergedCharacterResponses(characterResponses(reply.responses))
             IN  [Parsed("none", "multi", merged, combinedModelText(merged))
                    EXCEPT !.hint = Hint(reply)]
    ELSE IF scenario # Null THEN
        IF reply.kind # "single" THEN Parsed("SchemaValidation", "single", <<>>, <<>>)
        ELSE LET v == reply.responses[1]
             IN  Parsed("none", "single", <<CharacterTurn(1, v.french, v.english)>>,
                        Join(v.french, v.english))
    ELSE LET fe == parseFrenchEnglish(reply)
         IN  Parsed("none", "free", <<CharacterTurn(0, fe.french, fe.english)>>, fe.combined)

\* ------------------------------------------------- sendVoiceMessage: the steps
SessionReady(s) == s.chatSession # Null /\ s.ai

\* if (!chatSession || !ai) { ... }: the module state, and whether the call throws
StartCall(s, key) ==
    IF SessionReady(s) THEN [svc |-> s, threw |-> FALSE]
    ELSE LET s1 == IF s.activeScenario # Null
                     THEN resetSession(s, s.activeScenario, Null)
                     ELSE initializeSession(s, key)
         IN  [svc |-> s1,
              threw |-> (s.activeScenario = Null /\ ensureAiThrows(s, key))
                        \/ ~SessionReady(s1)]

\* !userText || userText.trim().length === 0
TranscriptionEmpty(text) == text = <<>> \/ Len(Trim(text)) = 0

\* sharedHistory.length > syncedMessageCount
NeedsSync(s, sharedHistory) == Len(sharedHistory) > s.syncedMessageCount

\* A sync that replays only the entries past syncedMessageCount.
SyncCheck_TailOnly(s, sharedHistory) ==
    IF NeedsSync(s, sharedHistory)
      THEN resetSession(s, s.activeScenario,
                        Some(SubSeq(sharedHistory, s.syncedMessageCount + 1, Len(sharedHistory))))
      ELSE s

\* the lazy sync before the chat call
SyncCheck(s, sharedHistory) ==
    IF NeedsSync(s, sharedHistory)
      THEN resetSession(s, s.activeScenario, Some(sharedHistory))
      ELSE s

\* A transcription step that records the user's message at once.
TranscribeStep_AppendsUser(text, s, history) ==
    IF TranscriptionEmpty(text)
      THEN [outcome |-> "TranscriptionEmpty", svc |-> s, history |-> history]
      ELSE LET s1 == SyncCheck(s, history)
           IN  [outcome |-> IF s1.chatSession = Null THEN "SyncFailed" ELSE "none",
                svc |-> s1, history |-> addToHistory(history, "user", text)]

\* From the transcription to the chat call: the validation of the text and the
\* sync; how the call goes on, the module state and the shared history it leaves.
TranscribeStep(text, s, history) ==
    IF TranscriptionEmpty(text)
      THEN [outcome |-> "TranscriptionEmpty", svc |-> s, history |-> history]
      ELSE LET s1 == SyncCheck(s, history)
           IN  [outcome |-> IF s1.chatSession = Null THEN "SyncFailed" ELSE "none",
                svc |-> s1, history |-> history]

\* A chat step without the signal.aborted check before audio generation.
ChatStep_NoCheckpoint(reply, scenario, history, user, aborted) ==
    LET p == ParseReply(reply, scenario) IN
    [parsed |-> p,
     outcome |-> IF p.error # "none" THEN p.error ELSE "none",
     history |-> history]

\* A chat step that records both messages as soon as the reply is parsed, before
\* audio generation.
ChatStep_CommitsFirst(reply, scenario, history, user, aborted) ==
    LET p == ParseReply(reply, scenario) IN
    [parsed |-> p,
     outcome |-> IF p.error # "none" THEN p.error
                 ELSE IF aborted THEN "Cancelled" ELSE "none",
     history |-> IF p.error # "none" THEN history
                 ELSE addToHistory(addToHistory(history, "user", user), "assistant", p.combined)]

\* From the chat response to the checkpoint before audio generation: what the
\* call has parsed, how it goes on, and the shared history it leaves.
ChatStep(reply, scenario, history, user, aborted) ==
    LET p == ParseReply(reply, scenario) IN
    [parsed |-> p,
     outcome |-> IF p.error # "none" THEN p.error
                 ELSE IF aborted THEN "Cancelled" ELSE "none",
     history |-> history]

\* Promise.all in place of Promise.allSettled: settles on the first rejection.
AllSettled_FailFast(a) ==
    \/ \A i \in DOMAIN a : a[i] = "fulfilled"
    \/ \E i \in DOMAIN a : a[i] = "rejected"

\* Promise.allSettled(audioPromises) resolves
AllSettled(a) == \A i \in DOMAIN a : a[i] # "pending"

\* the audio URLs the settled promises of call t carry
UrlsOf(t, a) == {Handle(t, i) : i \in {j \in DOMAIN a : a[j] = "fulfilled"}}

Ending(result, history, synced, revoked) ==
    [outcome |-> result, history |-> history, synced |-> synced, revoked |-> revoked]

\* (variant: the user entry is appended when the call ends, the assistant entry
\* being left for later)
Commit_UserOnly(history, user, text) == addToHistory(history, "user", user)

\* addToHistory("user", userText); addToHistory("assistant", modelText)
Commit(history, user, text) ==
    addToHistory(addToHistory(history, "user", user), "assistant", text)

\* results.map(...) reads activeScenario.characters for a rejected result: a
\* TypeError when the scenario has been cleared since the requests were sent
MapThrows(scenario, a) == scenario = Null /\ \E i \in DOMAIN a : a[i] = "rejected"

\* The history update placed before the check after audio generation.
AfterSynthesisMulti_CommitFirst(aborted, scenario, t, a, history, synced, user, text) ==
    IF MapThrows(scenario, a) THEN Ending("TypeError", history, synced, {})
    ELSE IF aborted
      THEN Ending("Cancelled", Commit(history, user, text), synced + 2, UrlsOf(t, a))
    ELSE Ending("ok", Commit(history, user, text), synced + 2, {})

\* multi-character: the settled results a are mapped (a failure keeps its text
\* and gets no audio), then the check after audio generation, then the history
\* update
AfterSynthesisMulti(aborted, scenario, t, a, history, synced, user, text) ==
    IF MapThrows(scenario, a) THEN Ending("TypeError", history, synced, {})
    ELSE IF aborted THEN Ending("Cancelled", history, synced, UrlsOf(t, a))
    ELSE Ending("ok", Commit(history, user, text), synced + 2, {})

\* single-character and free conversation: the catch around the TTS call (an
\* abort is thrown on, another failure leaves audioUrl empty), the check after
\* it, then the history update
AfterSpeech(aborted, t, a, history, synced, user, text) ==
    IF aborted THEN Ending("Cancelled", history, synced, UrlsOf(t, a))
    ELSE Ending("ok", Commit(history, user, text), synced + 2, {})

AfterSynthesis(path, aborted, scenario, t, a, history, synced, user, text) ==
    IF path = "multi"
      THEN AfterSynthesisMulti(aborted, scenario, t, a, history, synced, user, text)
      ELSE AfterSpeech(aborted, t, a, history, synced, user, text)

\* ------------------------------------------------------------ history variables
InFlight == pc \in {"transcribing", "chatting", "synthesizing"}

\* logAtStart, syncedAtStart: the shared history and syncedMessageCount when the
\* call started; reset: another operation reset the session while the call was in
\* flight; touched: a step of the call changed the shared history; appended: the
\* entries the call added; syncNeeded, syncLen, syncCreates: what the sync check
\* found, the length of the history it read and how many sessions it created;
\* issued: the synthesis requests sent; collected: the audio promises when the
\* call went on after them; syncedAtEnd: syncedMessageCount when the call ended;
\* abortedAt: where the call was when the user aborted it; reply: the chat
\* response, where it is an input of the run; returned: the VoiceResponse the
\* call returned; live: the session the call's chat message was sent on is still
\* the module's chatSession; cleared: the shared history was cleared while the
\* call was in flight; scenario: while the chat request is pending, the scenario
\* of the session the chat message was sent on; oaAppended: while a call of the
\* other backend is in flight, the entries it has added.
HStart(log, synced) ==
    [logAtStart |-> log, syncedAtStart |-> synced, reset |-> FALSE, touched |-> FALSE,
     reply |-> Null, returned |-> Null,
     appended |-> <<>>,
     syncNeeded |-> FALSE, syncLen |-> 0, syncCreates |-> 0, issued |-> 0, collected |-> <<>>,
     syncedAtEnd |-> 0, abortedAt |-> "none", live |-> FALSE,
     cleared |-> FALSE, scenario |-> Null, oaAppended |-> <<>>]

\* another operation resets the session while the call is in flight
Foreign == IF InFlight THEN [h EXCEPT !.reset = TRUE, !.live = FALSE] ELSE h

\* another operation clears the shared history and resets the session
ForeignClear == IF InFlight THEN [Foreign EXCEPT !.cleared = TRUE] ELSE h

\* ------------------------------------------------------------------------ App
\* a Message as processAudioMessage builds it: audioGenerationFailed is never set
Message(role, text, audioUrl) ==
    [role |-> role, text |-> text, audioUrl |-> audioUrl, audioGenerationFailed |-> FALSE]

\* the audioUrl of a response entry: '' when its audio generation failed
AudioUrl(t, a, i) == IF a[i] = "fulfilled" THEN Some(Handle(t, i)) ELSE Null

\* processAudioMessage: the messages one response adds
NewMessages(t, user, p, a) ==
    <<Message("user", user, Null)>> \o
    (IF p.path = "multi"
       THEN [i \in 1..Len(p.turns) |->
                Message("model", Join(p.turns[i].french, p.turns[i].english), AudioUrl(t, a, i))]
       ELSE <<Message("model", p.combined, AudioUrl(t, a, 1))>>)

\* ------------------------------------------- components/ConversationHistory
\* App's autoPlayMessageId and ConversationHistory's currentAutoPlayId name a
\* message by its timestamp, here its position in messages. Of the audio elements
\* of the messages: ready holds those with readyState >= 2, armed those whose
\* MessageItem waits for canplay or loadeddata to play, playing those not paused.
\* History fields: autoPlayed, the messages auto-play has started, in the order
\* in which it first started them;
\* ended, those whose audio has fired ended; manual, the user has used the
\* controls of an audio element.
NoPlayer ==
    [autoPlayMessageId |-> Null, currentAutoPlayId |-> Null, ready |-> {}, armed |-> {},
     playing |-> {}, autoPlayed |-> <<>>, ended |-> {}, manual |-> FALSE]

\* auto-play starts the audio of message id
Started(played, id) ==
    IF \E k \in DOMAIN played : played[k] = id THEN played ELSE Append(played, id)

\* MessageItem renders an audio element for the message
HasAudio(msgs, id) ==
    id \in DOMAIN msgs /\ msgs[id].role = "model" /\ msgs[id].audioUrl # Null

\* MessageItem's auto-play effect when autoPlay has become true: nothing without
\* an audio element; play() when the audio is ready, otherwise once it can play
AutoPlay(pl, msgs, id) ==
    IF ~HasAudio(msgs, id) THEN pl
    ELSE IF id \in pl.ready
      THEN [pl EXCEPT !.playing = @ \cup {id}, !.autoPlayed = Started(@, id)]
    ELSE [pl EXCEPT !.armed = @ \cup {id}]

\* setCurrentAutoPlayId(id) and the effects of the render it causes: the
\* clean-up of the auto-play effect of the message left, the auto-play effect
\* of the message named, and the pause of every other audio
setCurrentAutoPlayId(pl, msgs, id) ==
    IF pl.currentAutoPlayId = id THEN pl
    ELSE IF id = Null
      THEN [pl EXCEPT !.currentAutoPlayId = Null, !.armed = {}, !.playing = {}]
    ELSE AutoPlay([pl EXCEPT !.currentAutoPlayId = id, !.armed = {},
                             !.playing = @ \cap {id[1]}],
                  msgs, id[1])

\* setAutoPlayMessageId(id) in App, and the effect in ConversationHistory that
\* copies the prop into currentAutoPlayId
setAutoPlayMessageId(pl, msgs, id) ==
    [setCurrentAutoPlayId(pl, msgs, id) EXCEPT !.autoPlayMessageId = id]

\* the onRetryAudio prop App hands to ConversationHistory: none
onRetryAudio == Null

\* MessageItem: the Retry button under a model message is rendered when the
\* message has no audio, is flagged audioGenerationFailed and the prop is given
RetryButton(message) ==
    /\ message.role = "model"
    /\ message.audioUrl = Null
    /\ message.audioGenerationFailed
    /\ onRetryAudio # Null

\* msg.audioUrl of every message
MessageUrls(msgs) == UNION {{m.audioUrl[j] : j \in DOMAIN m.audioUrl} : m \in {msgs[k] : k \in DOMAIN msgs}}

\* the stopRecording() promises pending when the user aborts: each is marked
Aborted(stops) == [i \in DOMAIN stops |-> TRUE]

\* the pending promises without the i-th
Without(stops, i) == [j \in 1..(Len(stops) - 1) |-> IF j < i THEN stops[j] ELSE stops[j + 1]]

\* processAudioMessage without setAppState(IDLE) after a response was shown.
AfterCall_StaysProcessing(result, t, user, p, a, urls, userAborted, state) ==
    /\ abortController' = Null
    /\ stopping' = IF userAborted THEN Aborted(stopping) ELSE stopping
    /\ starting' = starting
    /\ processingAborted' = userAborted
    /\ IF userAborted
         THEN /\ UNCHANGED <<messages, player, canRetryChatAudio, lastChatAudio>>
              /\ appState' = state
              /\ blobUrls' = IF result = "ok" THEN urls \ UrlsOf(t, a) ELSE urls
         ELSE /\ blobUrls' = urls
              /\ IF result = "ok"
                   THEN /\ messages' = messages \o NewMessages(t, user, p, a)
                        /\ player' = setAutoPlayMessageId(player, messages', Some(Len(messages) + 2))
                        /\ canRetryChatAudio' = FALSE
                        /\ lastChatAudio' = Null
                        /\ appState' = appState
                   ELSE /\ messages' = messages
                        /\ player' = player
                        /\ canRetryChatAudio' = TRUE
                        /\ lastChatAudio' = lastChatAudio
                        /\ appState' = "ERROR"

\* processAudioMessage after sendVoiceMessage returned (result = "ok") or threw;
\* userAborted and state are processingAbortedRef.current and appState at that time
AfterCall(result, t, user, p, a, urls, userAborted, state) ==
    /\ abortController' = Null
    /\ stopping' = IF userAborted THEN Aborted(stopping) ELSE stopping
    /\ starting' = starting
    /\ processingAborted' = userAborted
    /\ IF userAborted
         THEN /\ UNCHANGED <<messages, player, canRetryChatAudio, lastChatAudio>>
              /\ appState' = state
              /\ blobUrls' = IF result = "ok" THEN urls \ UrlsOf(t, a) ELSE urls
         ELSE /\ blobUrls' = urls
              /\ IF result = "ok"
                   THEN /\ messages' = messages \o NewMessages(t, user, p, a)
                        /\ player' = setAutoPlayMessageId(player, messages', Some(Len(messages) + 2))
                        /\ canRetryChatAudio' = FALSE
                        /\ lastChatAudio' = Null
                        /\ appState' = "IDLE"
                   ELSE /\ messages' = messages
                        /\ player' = player
                        /\ canRetryChatAudio' = TRUE
                        /\ lastChatAudio' = lastChatAudio
                        /\ appState' = "ERROR"

\* a call started while another awaits its transcription or chat request: the
\* earlier call goes on by itself, awaiting that request
Superseded == IF pc \in {"transcribing", "chatting"} THEN {Handle(turnNo, 0)} ELSE {}

\* sendVoiceMessage is called and runs up to its first pending await; aborted
\* tells whether the signal handed over is already set, in which case the caller
\* is taken to have done what handleAbortProcessing does
BeginCall(aborted) ==
    LET c == StartCall(Svc, apiKey) IN
    /\ turnNo' = turnNo + 1
    /\ SvcBecomes(c.svc)
    /\ signalAborted' = aborted
    /\ userText' = <<>>
    /\ parsed' = NoParse
    /\ audio' = <<>>
    /\ h' = HStart(conversationHistory, syncedMessageCount)
    /\ processingAborted' = aborted
    /\ starting' = starting
    /\ messages' = messages
    /\ player' = player
    /\ requests' = requests \cup Superseded
    /\ UNCHANGED <<apiKey, conversationHistory, blobUrls, oaVars, setup>>
    /\ IF c.threw
         THEN /\ pc' = "done"
              /\ outcome' = "NotInitialized"
              /\ abortController' = Null
              /\ canRetryChatAudio' = IF aborted THEN canRetryChatAudio ELSE TRUE
              /\ appState' = IF aborted THEN "IDLE" ELSE "ERROR"
         ELSE /\ pc' = "transcribing"
              /\ outcome' = "none"
              /\ abortController' = Some(turnNo + 1)
              /\ canRetryChatAudio' = canRetryChatAudio
              /\ appState' = IF aborted THEN "IDLE" ELSE "PROCESSING"

\* processAudioMessage(audioData) up to the first pending await of sendVoiceMessage:
\* the AbortController is new (a call started while another awaits its synthesis
\* requests is not followed)
ProcessAudioMessage == pc # "synthesizing" /\ BeginCall(FALSE)

\* handleStartRecording up to await ensureMicrophonePermission()
HandleStartRecording ==
    /\ appState \in {"IDLE", "ERROR"}
    /\ apiKey
    /\ ~starting
    /\ oaPc = "idle"
    /\ starting' = TRUE
    /\ UNCHANGED <<apiKey, conversationHistory, svcVars, blobUrls, requests, appState,
                   processingAborted, abortController, canRetryChatAudio, lastChatAudio,
                   messages, player, stopping, turnVars, oaVars, setup, h>>

\* the permission check is answered: the retry state is cleared and the
\* recording starts, or handleStartRecording returns
MicrophonePermission(granted) ==
    /\ starting
    /\ starting' = FALSE
    /\ canRetryChatAudio' = IF granted THEN FALSE ELSE canRetryChatAudio
    /\ lastChatAudio' = IF granted THEN Null ELSE lastChatAudio
    /\ appState' = IF granted THEN "RECORDING" ELSE appState
    /\ UNCHANGED <<apiKey, conversationHistory, svcVars, blobUrls, requests, processingAborted,
                   abortController, messages, player, stopping, turnVars, oaVars, setup, h>>

\* handleStartRecording with the permission check answered "granted" before
\* anything else happens, the previous recording having been handed over
StartRecording ==
    /\ appState \in {"IDLE", "ERROR"}
    /\ apiKey
    /\ stopping = <<>>
    /\ ~starting
    /\ oaPc = "idle"
    /\ turnNo < MaxTurns
    /\ canRetryChatAudio' = FALSE
    /\ lastChatAudio' = Null
    /\ appState' = "RECORDING"
    /\ UNCHANGED <<apiKey, conversationHistory, svcVars, blobUrls, requests, processingAborted,
                   abortController, messages, player, stopping, starting, turnVars, oaVars, setup, h>>

HandleCancelRecording ==
    /\ appState = "RECORDING"
    /\ appState' = "IDLE"
    /\ UNCHANGED <<apiKey, conversationHistory, svcVars, blobUrls, requests, processingAborted,
                   abortController, canRetryChatAudio, lastChatAudio, messages, player, stopping,
                   starting, turnVars, oaVars, setup, h>>

\* handleStopRecording up to await stopRecording()
HandleStopRecording ==
    /\ appState = "RECORDING"
    /\ processingAborted' = FALSE
    /\ appState' = "PROCESSING"
    /\ Len(stopping) < MaxStops
    /\ stopping' = Append(stopping, FALSE)
    /\ UNCHANGED <<apiKey, conversationHistory, svcVars, blobUrls, requests, abortController,
                   canRetryChatAudio, lastChatAudio, messages, player, starting, turnVars, oaVars, setup, h>>

\* the i-th pending stopRecording() resolves with the audio, or rejects
RecordingStopped(i, ok) ==
    /\ i \in DOMAIN stopping
    /\ stopping' = Without(stopping, i)
    /\ IF processingAborted
         THEN /\ TRUE
              /\ UNCHANGED <<apiKey, conversationHistory, svcVars, blobUrls, requests,
                             appState, processingAborted, abortController, canRetryChatAudio,
                             lastChatAudio, messages, player, starting, turnVars, oaVars, setup, h>>
         ELSE IF ok
           THEN /\ turnNo < MaxTurns
                /\ lastChatAudio' = Some("audio")
                /\ ProcessAudioMessage
           ELSE /\ appState' = "ERROR"
                /\ UNCHANGED <<apiKey, conversationHistory, svcVars, blobUrls, requests,
                               processingAborted, abortController, canRetryChatAudio,
                               lastChatAudio, messages, player, starting, turnVars, oaVars, setup, h>>

HandleRetryChatAudio ==
    /\ canRetryChatAudio
    /\ appState = "ERROR"
    /\ lastChatAudio # Null
    /\ turnNo < MaxTurns
    /\ oaPc = "idle"
    /\ lastChatAudio' = lastChatAudio
    /\ stopping' = stopping
    /\ ProcessAudioMessage

\* -------------------------------------------------- sendVoiceMessage: actions
\* the entries a step added at the end of the shared history
Appended(before, after) ==
    IF Len(after) > Len(before) THEN SubSeq(after, Len(before) + 1, Len(after)) ELSE <<>>

\* sendVoiceMessage throws `result` before audio generation
Throws(result, userAborted, state) ==
    /\ pc' = "done"
    /\ outcome' = result
    /\ AfterCall(result, turnNo, userText, parsed, audio, blobUrls, userAborted, state)

\* (variant: the entries whose audio generation failed are left out)
characterAudios_DropsFailed(t, turns, a) ==
    LET kept == {i \in DOMAIN turns : a[i] = "fulfilled"}
        nth(n) == CHOOSE i \in kept : Cardinality({j \in kept : j < i}) = n - 1
    IN  [n \in 1..Cardinality(kept) |->
            [characterId |-> turns[nth(n)].characterId, french |-> turns[nth(n)].french,
             english |-> turns[nth(n)].english, audioUrl |-> AudioUrl(t, a, nth(n)),
             audioGenerationFailed |-> FALSE]]

\* (variant: a rejected result is not flagged)
characterAudios_Unflagged(t, turns, a) ==
    [i \in DOMAIN turns |->
        [characterId |-> turns[i].characterId, french |-> turns[i].french,
         english |-> turns[i].english, audioUrl |-> AudioUrl(t, a, i),
         audioGenerationFailed |-> FALSE]]

\* results.map(...): a rejected result keeps the entry's data with audioUrl ''
\* and the failure flag, a fulfilled one carries its URL
characterAudios(t, turns, a) ==
    [i \in DOMAIN turns |->
        [characterId |-> turns[i].characterId, french |-> turns[i].french,
         english |-> turns[i].english, audioUrl |-> AudioUrl(t, a, i),
         audioGenerationFailed |-> a[i] = "rejected"]]

\* the value sendVoiceMessage returns: arrays with one position per entry for a
\* multi-character response, one text and one URL otherwise
VoiceResponse(t, p, user, a) ==
    IF p.path = "multi"
      THEN LET cas == characterAudios(t, p.turns, a) IN
           [audioUrl |-> [i \in DOMAIN cas |-> cas[i].audioUrl],
            modelText |-> [i \in DOMAIN cas |-> Join(cas[i].french, cas[i].english)],
            userText |-> user,
            hint |-> p.hint,
            characters |-> [i \in DOMAIN cas |->
                              [characterId |-> cas[i].characterId,
                               audioGenerationFailed |-> cas[i].audioGenerationFailed,
                               frenchText |-> cas[i].french]]]
      ELSE [audioUrl |-> AudioUrl(t, a, 1), modelText |-> p.combined, userText |-> user,
            hint |-> p.hint, audioGenerationFailed |-> (AudioUrl(t, a, 1) = Null),
            characters |-> <<>>]

\* the continuation after the audio promises: the check, the history update, the
\* return to processAudioMessage
Finish(aborted, p, user, a, urls, history, hh, userAborted, state, chat) ==
    LET e == AfterSynthesis(p.path, aborted, activeScenario, turnNo, a, history,
                            syncedMessageCount, user, p.combined)
    IN  /\ conversationHistory' = e.history
        /\ syncedMessageCount' = e.synced
        /\ chatSession' = chat
        /\ UNCHANGED <<ai, activeScenario, pendingScenario, pendingHistory>>
        /\ pc' = "done"
        /\ outcome' = e.outcome
        /\ h' = [hh EXCEPT !.touched = hh.touched \/ e.history # history,
                           !.appended = hh.appended \o Appended(history, e.history),
                           !.collected = a,
                           !.syncedAtEnd = e.synced,
                           !.returned = IF e.outcome = "ok"
                                          THEN Some(VoiceResponse(turnNo, p, user, a))
                                          ELSE Null]
        /\ AfterCall(e.outcome, turnNo, user, p, a, urls \ e.revoked, userAborted, state)

\* the transcription request is answered
TranscribeReturns(ok, text) ==
    /\ pc = "transcribing"
    /\ UNCHANGED <<apiKey, requests, turnNo, signalAborted, parsed, audio, oaVars, setup>>
    /\ IF ~ok
         THEN /\ Throws("RemoteError", processingAborted, appState)
              /\ UNCHANGED <<conversationHistory, svcVars, userText, h>>
         ELSE LET sharedHistory == getConversationHistory
                  c == TranscribeStep(text, Svc, sharedHistory)
              IN  /\ SvcBecomes(c.svc)
                  /\ conversationHistory' = c.history
                  /\ userText' = text
                  /\ h' = [h EXCEPT !.touched = h.touched \/ c.history # conversationHistory,
                                    !.appended = h.appended \o Appended(conversationHistory, c.history),
                                    !.syncNeeded = c.outcome # "TranscriptionEmpty"
                                                   /\ NeedsSync(Svc, sharedHistory),
                                    !.syncLen = Len(sharedHistory),
                                    !.syncCreates = c.svc.creates,
                                    !.live = c.outcome = "none",
                                    !.scenario = IF c.outcome = "none"
                                                   THEN c.svc.chatSession[1].scenario
                                                   ELSE Null]
                  /\ IF c.outcome # "none"
                       THEN Throws(c.outcome, processingAborted, appState)
                       ELSE /\ pc' = "chatting"
                            /\ outcome' = outcome
                            /\ UNCHANGED <<blobUrls, appVars>>

\* the chat request is answered
ChatReturns(ok, reply) ==
    /\ pc = "chatting"
    /\ UNCHANGED <<apiKey, turnNo, signalAborted, userText, oaVars, setup>>
    /\ IF ~ok
         THEN /\ Throws("RemoteError", processingAborted, appState)
              /\ h' = [h EXCEPT !.scenario = Null]
              /\ UNCHANGED <<conversationHistory, svcVars, requests, parsed, audio>>
         ELSE LET c == ChatStep(reply, activeScenario, conversationHistory, userText,
                                signalAborted)
                  n == Len(c.parsed.turns)
                  chat == Recorded(chatSession, reply, h.live)
                  hh == [h EXCEPT !.touched = h.touched \/ c.history # conversationHistory,
                                  !.appended = h.appended \o Appended(conversationHistory, c.history),
                                  !.issued = IF c.outcome = "none" THEN n ELSE 0,
                                  !.scenario = Null]
              IN  /\ parsed' = c.parsed
                  /\ IF c.outcome # "none"
                       THEN /\ pc' = "done"
                            /\ outcome' = c.outcome
                            /\ AfterCall(c.outcome, turnNo, userText, c.parsed, audio, blobUrls,
                                         processingAborted, appState)
                            /\ conversationHistory' = c.history
                            /\ h' = hh
                            /\ chatSession' = chat
                            /\ UNCHANGED <<ai, syncedMessageCount, activeScenario, pendingScenario,
                                           pendingHistory, requests, audio>>
                       ELSE /\ audio' = [i \in 1..n |-> "pending"]
                            /\ requests' = requests \cup {Handle(turnNo, i) : i \in 1..n}
                            /\ IF n = 0
                                 THEN Finish(signalAborted, c.parsed, userText, <<>>, blobUrls,
                                             c.history, hh, processingAborted, appState, chat)
                                 ELSE /\ pc' = "synthesizing"
                                      /\ outcome' = outcome
                                      /\ conversationHistory' = c.history
                                      /\ h' = hh
                                      /\ chatSession' = chat
                                      /\ UNCHANGED <<ai, syncedMessageCount, activeScenario,
                                                     pendingScenario, pendingHistory, blobUrls,
                                                     appVars>>

\* a synthesis request is answered: generateCharacterSpeech creates the blob URL
\* (ok) or throws; the call that issued it goes on only if it still awaits it
SynthReturns(req, ok) ==
    /\ req \in requests
    /\ req.idx > 0
    /\ requests' = requests \ {req}
    /\ UNCHANGED <<apiKey, turnNo, signalAborted, userText, parsed, oaVars, setup>>
    /\ LET urls == IF ok THEN blobUrls \cup {req} ELSE blobUrls IN
       IF req.turn = turnNo /\ pc = "synthesizing" /\ audio[req.idx] = "pending"
         THEN LET a == [audio EXCEPT ![req.idx] = IF ok THEN "fulfilled" ELSE "rejected"]
              IN  /\ audio' = a
                  /\ IF AllSettled(a)
                       THEN Finish(signalAborted, parsed, userText, a, urls,
                                   conversationHistory, h, processingAborted, appState,
                                   chatSession)
                       ELSE /\ blobUrls' = urls
                            /\ UNCHANGED <<conversationHistory, svcVars, appVars, pc, outcome, h>>
         ELSE /\ blobUrls' = urls
              /\ UNCHANGED <<conversationHistory, svcVars, appVars, pc, outcome, audio, h>>

\* the request a superseded call awaits is answered with an error: the call
\* throws, and its processAudioMessage runs its catch and finally blocks (a
\* superseded call that is answered successfully is not followed)
SupersededCallFails(req) ==
    /\ req \in requests
    /\ req.idx = 0
    /\ requests' = requests \ {req}
    /\ abortController' = Null
    /\ canRetryChatAudio' = IF processingAborted THEN canRetryChatAudio ELSE TRUE
    /\ appState' = IF processingAborted THEN appState ELSE "ERROR"
    /\ UNCHANGED <<apiKey, conversationHistory, svcVars, blobUrls, processingAborted,
                   lastChatAudio, messages, player, stopping, starting, turnVars, oaVars, setup, h>>

\* handleAbortProcessing, and what the aborted call does on the rejection of the
\* promise it awaits
HandleAbortProcessing ==
    /\ appState = "PROCESSING"
    /\ UNCHANGED <<apiKey, requests, turnNo, userText, parsed, oaVars, setup>>
    /\ IF abortController # Null /\ InFlight
         THEN /\ signalAborted' = TRUE
              /\ IF pc = "synthesizing"
                   THEN LET a == [i \in DOMAIN audio |->
                                    IF audio[i] = "pending" THEN "rejected" ELSE audio[i]]
                        IN  /\ audio' = a
                            /\ Finish(TRUE, parsed, userText, a, blobUrls, conversationHistory,
                                      [h EXCEPT !.abortedAt = pc], TRUE, "IDLE", chatSession)
                   ELSE /\ Throws("Cancelled", TRUE, "IDLE")
                        /\ h' = [h EXCEPT !.abortedAt = pc, !.scenario = Null]
                        /\ UNCHANGED <<conversationHistory, svcVars, audio>>
         ELSE /\ processingAborted' = TRUE
              /\ appState' = "IDLE"
              /\ stopping' = Aborted(stopping)
              /\ UNCHANGED <<conversationHistory, svcVars, blobUrls, abortController,
                             canRetryChatAudio, lastChatAudio, messages, player, starting,
                             pc, signalAborted, outcome, audio, h>>

\* ----------------------------------------------------------- App: the session
\* URL.revokeObjectURL of every message's audio, before the messages are dropped
RevokeMessages == blobUrls \ MessageUrls(messages)

\* handleClearHistory without the reset of the Gemini session.
HandleClearHistory_KeepsSession ==
    /\ blobUrls' = RevokeMessages
    /\ conversationHistory' = clearHistory
    /\ messages' = <<>>
    /\ player' = NoPlayer
    /\ h' = ForeignClear
    /\ UNCHANGED <<apiKey, svcVars, requests, appState, processingAborted, abortController,
                   canRetryChatAudio, lastChatAudio, stopping, starting,
                   turnVars, oaVars, setup>>

HandleClearHistory ==
    /\ blobUrls' = RevokeMessages
    /\ conversationHistory' = clearHistory
    /\ messages' = <<>>
    /\ player' = NoPlayer
    /\ SvcBecomes(resetSession(Svc, activeScenario, Null))
    /\ h' = ForeignClear
    /\ UNCHANGED <<apiKey, requests, appState, processingAborted, abortController,
                   canRetryChatAudio, lastChatAudio, stopping, starting,
                   turnVars, oaVars, setup>>

HandleStartPractice(scenario) ==
    /\ activeScenario = Null
    /\ blobUrls' = RevokeMessages
    /\ conversationHistory' = clearHistory
    /\ messages' = <<>>
    /\ player' = NoPlayer
    /\ SvcBecomes(setScenario(Svc, Some(scenario)))
    /\ h' = ForeignClear
    /\ UNCHANGED <<apiKey, requests, appState, processingAborted, abortController,
                   canRetryChatAudio, lastChatAudio, stopping, starting,
                   turnVars, oaVars, setup>>

HandleExitScenario ==
    /\ activeScenario # Null
    /\ blobUrls' = RevokeMessages
    /\ SvcBecomes(setScenario(Svc, Null))
    /\ conversationHistory' = clearHistory
    /\ messages' = <<>>
    /\ player' = NoPlayer
    /\ h' = ForeignClear
    /\ UNCHANGED <<apiKey, requests, appState, processingAborted, abortController,
                   canRetryChatAudio, lastChatAudio, stopping, starting,
                   turnVars, oaVars, setup>>

\* ApiKeySetup saves a Gemini key, then handleApiKeySave
HandleApiKeySave ==
    /\ apiKey' = TRUE
    /\ SvcBecomes(initializeSession(Svc, TRUE))
    /\ h' = Foreign
    /\ UNCHANGED <<conversationHistory, blobUrls, requests, appVars, turnVars, oaVars, setup>>

\* ------------------------------------------------------ services/openaiService
OaModelText == <<"f", Space, "e">>

\* sendVoiceMessageOpenAI is called: the STT request is sent
OaStart ==
    /\ oaPc = "idle"
    /\ ~InFlight
    /\ stopping = <<>>
    /\ appState \in {"IDLE", "ERROR"}
    /\ oaTurns < MaxOther
    /\ oaPc' = "stt"
    /\ oaTurns' = oaTurns + 1
    /\ UNCHANGED <<apiKey, conversationHistory, svcVars, blobUrls, requests, appVars, turnVars,
                   oaUserText, h, setup>>

\* the STT request is answered: userText = sttJson.text goes into the chat request
\* as it is
OaSttReturns(ok, text) ==
    /\ oaPc = "stt"
    /\ oaPc' = IF ok THEN "chat" ELSE "idle"
    /\ oaUserText' = IF ok THEN text ELSE <<>>
    /\ UNCHANGED <<apiKey, conversationHistory, svcVars, blobUrls, requests, appVars, turnVars,
                   oaTurns, h, setup>>

\* the chat completion is answered: both messages go to the shared history, then
\* the TTS request is sent
OaChatReturns(ok) ==
    /\ oaPc = "chat"
    /\ oaPc' = IF ok THEN "tts" ELSE "idle"
    /\ oaUserText' = IF ok THEN oaUserText ELSE <<>>
    /\ conversationHistory' =
         IF ok THEN Commit(conversationHistory, oaUserText, OaModelText)
               ELSE conversationHistory
    /\ h' = IF ok THEN [h EXCEPT !.oaAppended = Commit(<<>>, oaUserText, OaModelText)] ELSE h
    /\ UNCHANGED <<apiKey, svcVars, blobUrls, requests, appVars, turnVars, oaTurns, setup>>

\* the TTS request is answered: the audio URL is created and the caller shows the
\* messages, or the call throws
OaTtsReturns(ok) ==
    /\ oaPc = "tts"
    /\ oaPc' = "idle"
    /\ oaUserText' = <<>>
    /\ blobUrls' = IF ok THEN blobUrls \cup {Handle(0, oaTurns)} ELSE blobUrls
    /\ messages' = IF ok
                     THEN messages \o <<Message("user", oaUserText, Null),
                                        Message("model", OaModelText, Some(Handle(0, oaTurns)))>>
                     ELSE messages
    /\ player' = player
    /\ h' = [h EXCEPT !.oaAppended = <<>>]
    /\ UNCHANGED <<apiKey, conversationHistory, svcVars, requests, appState, processingAborted,
                   abortController, canRetryChatAudio, lastChatAudio, stopping, starting, turnVars,
                   oaTurns, setup>>

\* ------------------------------------------------ ConversationHistory: playback
\* handleAudioEnded that goes on with the message after the next one.
handleAudioEnded_SkipsOne(msgs, id) ==
    IF id + 2 \in DOMAIN msgs /\ msgs[id + 2].role = "model" THEN Some(id + 2) ELSE Null

\* handleAudioEnded: the message to auto-play after message id, the next one when
\* it is a model message of the same response (consecutive timestamps)
handleAudioEnded(msgs, id) ==
    IF id + 1 \in DOMAIN msgs /\ msgs[id + 1].role = "model" THEN Some(id + 1) ELSE Null

\* the audio element of message id has loaded enough to play (canplay,
\* loadeddata); a MessageItem waiting for that plays it
CanPlay(id) ==
    /\ HasAudio(messages, id)
    /\ id \notin player.ready
    /\ player' = IF id \in player.armed
                   THEN [player EXCEPT !.ready = @ \cup {id}, !.armed = @ \ {id},
                                       !.playing = @ \cup {id},
                                       !.autoPlayed = Started(@, id)]
                   ELSE [player EXCEPT !.ready = @ \cup {id}]
    /\ UNCHANGED <<apiKey, conversationHistory, svcVars, blobUrls, requests, appState,
                   processingAborted, abortController, canRetryChatAudio, lastChatAudio,
                   messages, stopping, starting, turnVars, oaVars, setup, h>>

\* the audio of message id plays to its end: the ended listener of its
\* MessageItem calls handleAudioEnded
AudioEnded(id) ==
    /\ id \in player.playing
    /\ LET next == handleAudioEnded(messages, id)
           pl == [player EXCEPT !.playing = @ \ {id}, !.ended = @ \cup {id}]
       IN  player' = IF next = Null THEN pl ELSE setCurrentAutoPlayId(pl, messages, next)
    /\ UNCHANGED <<apiKey, conversationHistory, svcVars, blobUrls, requests, appState,
                   processingAborted, abortController, canRetryChatAudio, lastChatAudio,
                   messages, stopping, starting, turnVars, oaVars, setup, h>>

\* the user starts the audio of message id with the controls of its element
UserPlays(id) ==
    /\ HasAudio(messages, id)
    /\ id \in player.ready \ player.playing
    /\ player' = [player EXCEPT !.playing = @ \cup {id}, !.manual = TRUE]
    /\ UNCHANGED <<apiKey, conversationHistory, svcVars, blobUrls, requests, appState,
                   processingAborted, abortController, canRetryChatAudio, lastChatAudio,
                   messages, stopping, starting, turnVars, oaVars, setup, h>>

\* the user pauses the audio of message id with the controls of its element
UserPauses(id) ==
    /\ id \in player.playing
    /\ player' = [player EXCEPT !.playing = @ \ {id}, !.manual = TRUE]
    /\ UNCHANGED <<apiKey, conversationHistory, svcVars, blobUrls, requests, appState,
                   processingAborted, abortController, canRetryChatAudio, lastChatAudio,
                   messages, stopping, starting, turnVars, oaVars, setup, h>>

\* --------------------------------------------- App: the scenario description
\* scenarioSetupOpenRef (open), isRecordingDescription, isTranscribingDescription,
\* showTranscriptOptions, canRetryDescriptionAudio and lastDescriptionAudio; stops
\* and pending count the stopRecording() promises and the
\* transcribeAndCleanupAudio requests of the description that are pending.
NoSetup ==
    [open |-> FALSE, isRecordingDescription |-> FALSE, isTranscribingDescription |-> FALSE,
     showTranscriptOptions |-> FALSE, canRetryDescriptionAudio |-> FALSE,
     lastDescriptionAudio |-> Null, stops |-> 0, pending |-> 0]

\* what no step of the setup modal changes
SetupLeaves ==
    UNCHANGED <<apiKey, conversationHistory, svcVars, blobUrls, requests, appVars, turnVars,
                oaVars, h>>

\* the voice button of ScenarioSetup is shown in place of the spinner
VoiceButton == setup.open /\ ~setup.isTranscribingDescription

handleOpenScenarioSetup ==
    /\ ~setup.open
    /\ setup' = [setup EXCEPT !.open = TRUE, !.showTranscriptOptions = FALSE]
    /\ SetupLeaves

handleCloseScenarioSetup ==
    /\ setup.open
    /\ setup' = [setup EXCEPT !.open = FALSE, !.isRecordingDescription = FALSE,
                              !.isTranscribingDescription = FALSE,
                              !.showTranscriptOptions = FALSE,
                              !.canRetryDescriptionAudio = FALSE,
                              !.lastDescriptionAudio = Null]
    /\ SetupLeaves

\* the microphone permission is taken as granted
handleStartRecordingDescription ==
    /\ VoiceButton
    /\ ~setup.showTranscriptOptions
    /\ ~setup.isRecordingDescription
    /\ apiKey
    /\ setup' = [setup EXCEPT !.canRetryDescriptionAudio = FALSE,
                              !.lastDescriptionAudio = Null,
                              !.isRecordingDescription = TRUE]
    /\ SetupLeaves

\* handleStopRecordingDescription up to await stopRecording()
handleStopRecordingDescription ==
    /\ VoiceButton
    /\ ~setup.showTranscriptOptions
    /\ setup.isRecordingDescription
    /\ setup.stops < MaxDesc
    /\ setup' = [setup EXCEPT !.isRecordingDescription = FALSE, !.stops = @ + 1]
    /\ SetupLeaves

handleCancelRecordingDescription ==
    /\ setup.open
    /\ setup.isRecordingDescription
    /\ setup' = [setup EXCEPT !.isRecordingDescription = FALSE]
    /\ SetupLeaves

\* a stopRecording() promise of the description settles: the audio is stored
\* and processDescriptionAudio sends it to be transcribed, or the catch block
\* shows the error
DescriptionRecordingStopped(ok) ==
    /\ setup.stops > 0
    /\ ok => setup.pending < MaxDesc
    /\ setup' = IF ok
                  THEN [setup EXCEPT !.stops = @ - 1, !.lastDescriptionAudio = Some("audio"),
                                     !.isTranscribingDescription = TRUE, !.pending = @ + 1]
                  ELSE [setup EXCEPT !.stops = @ - 1]
    /\ SetupLeaves

\* the Retry Transcription button, then handleRetryDescriptionAudio: nothing is
\* sent without a stored audio
handleRetryDescriptionAudio ==
    /\ VoiceButton
    /\ setup.canRetryDescriptionAudio
    /\ ~setup.isRecordingDescription
    /\ ~setup.showTranscriptOptions
    /\ setup.lastDescriptionAudio # Null
    /\ setup.pending < MaxDesc
    /\ setup' = [setup EXCEPT !.isTranscribingDescription = TRUE, !.pending = @ + 1]
    /\ SetupLeaves

\* a transcribeAndCleanupAudio request is answered (result "ok", "empty" for an
\* empty transcript, "error"), and processDescriptionAudio goes on to its end
DescriptionTranscribed(result) ==
    /\ setup.pending > 0
    /\ LET s == [setup EXCEPT !.pending = @ - 1, !.isTranscribingDescription = FALSE] IN
       setup' = IF ~setup.open THEN s
                ELSE IF result = "ok"
                  THEN [s EXCEPT !.canRetryDescriptionAudio = FALSE,
                                 !.lastDescriptionAudio = Null,
                                 !.showTranscriptOptions = TRUE]
                ELSE [s EXCEPT !.canRetryDescriptionAudio = TRUE]
    /\ SetupLeaves

handleDismissTranscriptOptions ==
    /\ setup.open
    /\ setup.showTranscriptOptions
    /\ setup' = [setup EXCEPT !.showTranscriptOptions = FALSE]
    /\ SetupLeaves

\* ---------------------------------------------------------------- specification
\* The module state at load, and after the mount effect when a key is available.
Blank ==
    [ai |-> FALSE, chatSession |-> Null, syncedMessageCount |-> 0, activeScenario |-> Null,
     pendingScenario |-> Null, pendingHistory |-> Null, creates |-> 0]

Init ==
    /\ apiKey \in BOOLEAN
    /\ conversationHistory = <<>>
    /\ LET s == initializeSession(Blank, apiKey) IN
        /\ ai = s.ai
        /\ chatSession = s.chatSession
        /\ syncedMessageCount = s.syncedMessageCount
        /\ activeScenario = s.activeScenario
        /\ pendingScenario = s.pendingScenario
        /\ pendingHistory = s.pendingHistory
    /\ blobUrls = {}
    /\ requests = {}
    /\ appState = "IDLE"
    /\ processingAborted = FALSE
    /\ abortController = Null
    /\ canRetryChatAudio = FALSE
    /\ lastChatAudio = Null
    /\ messages = <<>>
    /\ player = NoPlayer
    /\ setup = NoSetup
    /\ stopping = <<>>
    /\ starting = FALSE
    /\ turnNo = 0
    /\ pc = "idle"
    /\ signalAborted = FALSE
    /\ outcome = "none"
    /\ userText = <<>>
    /\ parsed = NoParse
    /\ audio = <<>>
    /\ oaPc = "idle"
    /\ oaTurns = 0
    /\ oaUserText = <<>>
    /\ h = HStart(<<>>, 0)

Next ==
    \/ StartRecording
    \/ HandleCancelRecording
    \/ HandleStopRecording
    \/ \E i \in 1..MaxStops, ok \in BOOLEAN : RecordingStopped(i, ok)
    \/ HandleRetryChatAudio
    \/ \E ok \in BOOLEAN, text \in Transcripts : TranscribeReturns(ok, text)
    \/ \E ok \in BOOLEAN, reply \in Replies : ChatReturns(ok, reply)
    \/ \E req \in requests, ok \in BOOLEAN : SynthReturns(req, ok)
    \/ HandleAbortProcessing
    \/ HandleClearHistory
    \/ \E scenario \in Scenarios : HandleStartPractice(scenario)
    \/ HandleExitScenario
    \/ HandleApiKeySave
    \/ OaStart
    \/ \E ok \in BOOLEAN, text \in Transcripts : OaSttReturns(ok, text)
    \/ \E ok \in BOOLEAN : OaChatReturns(ok)
    \/ \E ok \in BOOLEAN : OaTtsReturns(ok)

Spec == Init /\ [][Next]_vars

\* The controls of the main conversation on their own, in free conversation, with
\* the microphone permission check of handleStartRecording taking its time.
InitRecord == Init /\ apiKey

NextRecord ==
    \/ HandleStartRecording
    \/ \E granted \in BOOLEAN : MicrophonePermission(granted)
    \/ HandleCancelRecording
    \/ HandleStopRecording
    \/ \E i \in 1..MaxStops, ok \in BOOLEAN : RecordingStopped(i, ok)
    \/ HandleRetryChatAudio
    \/ \E ok \in BOOLEAN, text \in Transcripts : TranscribeReturns(ok, text)
    \/ \E ok \in BOOLEAN, reply \in Replies : ChatReturns(ok, reply)
    \/ \E req \in requests, ok \in BOOLEAN : SynthReturns(req, ok)
    \/ \E req \in requests : SupersededCallFails(req)
    \/ HandleAbortProcessing

SpecRecord == InitRecord /\ [][NextRecord]_vars

\* The scenario setup modal: it is opened and closed, the description is
\* recorded, transcribed and retried.
NextSetup ==
    \/ handleOpenScenarioSetup
    \/ handleCloseScenarioSetup
    \/ handleStartRecordingDescription
    \/ handleStopRecordingDescription
    \/ handleCancelRecordingDescription
    \/ \E ok \in BOOLEAN : DescriptionRecordingStopped(ok)
    \/ handleRetryDescriptionAudio
    \/ \E result \in {"ok", "empty", "error"} : DescriptionTranscribed(result)
    \/ handleDismissTranscriptOptions

SpecSetup == InitRecord /\ [][NextSetup]_vars

\* every request is answered and every stopRecording() promise settles
FairSpecRecord ==
    /\ SpecRecord
    /\ WF_vars(\E i \in 1..MaxStops, ok \in BOOLEAN : RecordingStopped(i, ok))
    /\ WF_vars(\E ok \in BOOLEAN, text \in Transcripts : TranscribeReturns(ok, text))
    /\ WF_vars(\E ok \in BOOLEAN, reply \in Replies : ChatReturns(ok, reply))
    /\ WF_vars(\E req \in requests, ok \in BOOLEAN : SynthReturns(req, ok))
    /\ WF_vars(\E req \in requests : SupersededCallFails(req))

\* One sendVoiceMessage call taken on its own: the state of the service and the
\* signal handed over are inputs.
\* A signal that is set while no wrapped request is pending (before the call, or
\* between the settling of one request and the issue of the next) fires none of
\* the listeners abortablePromise adds; the call sees it at its next
\* signal.aborted check.
CallScenarios == {Null} \cup {Some(n) : n \in 1..CallMaxChars}

\* Before the call: the key may be there or not, the client initialised or not,
\* and a scenario may have been set (before the client was initialised, if it is).
InitCall ==
    \E scenario \in CallScenarios, key \in BOOLEAN, initialised \in BOOLEAN :
        LET s == initializeSession(resetSession(Blank, scenario, Null), key /\ initialised) IN
        /\ apiKey = key
        /\ conversationHistory = <<>>
        /\ ai = s.ai
        /\ chatSession = s.chatSession
        /\ syncedMessageCount = s.syncedMessageCount
        /\ activeScenario = s.activeScenario
        /\ pendingScenario = s.pendingScenario
        /\ pendingHistory = s.pendingHistory
        /\ blobUrls = {}
        /\ requests = {}
        /\ appState = "IDLE"
        /\ processingAborted = FALSE
        /\ abortController = Null
        /\ canRetryChatAudio = FALSE
        /\ lastChatAudio = Some("audio")
        /\ messages = <<>>
        /\ player = NoPlayer
        /\ setup = NoSetup
        /\ stopping = <<>>
        /\ starting = FALSE
        /\ turnNo = 0
        /\ pc = "idle"
        /\ signalAborted = FALSE
        /\ outcome = "none"
        /\ userText = <<>>
        /\ parsed = NoParse
        /\ audio = <<>>
        /\ oaPc = "idle"
        /\ oaTurns = 0
        /\ oaUserText = <<>>
    /\ oaUserText = <<>>
        /\ h = HStart(<<>>, 0)

\* the one call of the run
SendVoiceMessage(aborted) ==
    /\ pc = "idle"
    /\ lastChatAudio' = lastChatAudio
    /\ stopping' = stopping
    /\ BeginCall(aborted)

NextCall ==
    \/ \E aborted \in BOOLEAN : SendVoiceMessage(aborted)
    \/ \E ok \in BOOLEAN, text \in Transcripts : TranscribeReturns(ok, text)
    \/ \E ok \in BOOLEAN, reply \in CallReplies : ChatReturns(ok, reply)
    \/ \E req \in requests, ok \in BOOLEAN : SynthReturns(req, ok)
    \/ HandleAbortProcessing

SpecCall == InitCall /\ [][NextCall]_vars

\* One call under a scenario and the playback of what it delivers: the audio
\* elements load, play and end, the user operates their controls and may start
\* the next recording.
MessageIds == 1..(CallMaxChars + 1)

\* the replies of the run: one entry for each of the first n characters, in the
\* order of the scenario, and the reply of a single-character scenario
PlayReplies ==
    {Reply("multi", [i \in 1..n |-> Response(CharacterLabel(i), <<"g">>, <<"e">>)]) :
        n \in 1..CallMaxChars}
    \cup {Reply("single", <<Response(NoLabel, <<"g">>, <<"e">>)>>)}

InitPlay == InitCall /\ apiKey /\ activeScenario # Null

NextPlay ==
    \/ SendVoiceMessage(FALSE)
    \/ \E text \in Transcripts : TranscribeReturns(TRUE, text)
    \/ \E reply \in PlayReplies : ChatReturns(TRUE, reply)
    \/ \E req \in requests, ok \in BOOLEAN : SynthReturns(req, ok)
    \/ \E id \in MessageIds : CanPlay(id)
    \/ \E id \in MessageIds : AudioEnded(id)
    \/ \E id \in MessageIds : UserPlays(id)
    \/ \E id \in MessageIds : UserPauses(id)
    \/ HandleStartRecording
    \/ \E granted \in BOOLEAN : MicrophonePermission(granted)

SpecPlay == InitPlay /\ [][NextPlay]_vars

\* every audio element loads, and every audio that plays ends
FairSpecPlay ==
    /\ SpecPlay
    /\ \A id \in MessageIds : WF_vars(CanPlay(id)) /\ WF_vars(AudioEnded(id))

\* The handling of the chat response taken on its own: the call waits for the
\* chat request, and the scenario of the session and the response are inputs.
ParseLabels ==
    CallLabels
    \cup {<<"character", Space, "1">>, <<"Character", Space, Space, "2">>,
          <<"Character", Space, "0", "1">>, <<Space, "Character", Space, "1", Space>>,
          <<"Character", Space, "1", "0">>, <<"Character", "1">>, <<"Character", Space>>}

ParseFrenchTexts == {<<"f">>, <<Space, "g">>}

\* responses that differ in their hints only: the top-level hint absent, empty
\* or given, the hint of an entry absent or given
HintReplies ==
    {[Reply("multi", rs) EXCEPT !.hint = top] :
        top \in {Null, Some(<<>>), Some(<<"t">>)},
        rs \in UNION {[1..n -> {[Response(CharacterLabel(1), <<"f">>, <<"e">>) EXCEPT !.hint = hint] :
                                   hint \in {Null, Some(<<"k">>), Some(<<"l">>)}}]
                      : n \in 0..2}}

ParseReplies ==
    {Reply("empty", <<>>)}
    \cup {Reply(k, <<Response(NoLabel, f, e)>>) :
            k \in {"text", "single", "other"}, f \in FrenchTexts, e \in EnglishTexts}
    \cup {Reply("multi", rs) :
            rs \in UNION {[1..n -> {Response(l, f, e) :
                                      l \in ParseLabels, f \in ParseFrenchTexts, e \in EnglishTexts}]
                          : n \in 0..CallMaxResp}}
    \cup HintReplies

InitParse ==
    \E scenario \in CallScenarios, reply \in ParseReplies :
        LET s == resetSession(initializeSession(Blank, TRUE), scenario, Null) IN
        /\ apiKey = TRUE
        /\ conversationHistory = <<>>
        /\ ai = s.ai
        /\ chatSession = s.chatSession
        /\ syncedMessageCount = s.syncedMessageCount
        /\ activeScenario = s.activeScenario
        /\ pendingScenario = s.pendingScenario
        /\ pendingHistory = s.pendingHistory
        /\ blobUrls = {}
        /\ requests = {}
        /\ appState = "PROCESSING"
        /\ processingAborted = FALSE
        /\ abortController = Some(1)
        /\ canRetryChatAudio = FALSE
        /\ lastChatAudio = Some("audio")
        /\ messages = <<>>
        /\ player = NoPlayer
        /\ setup = NoSetup
        /\ stopping = <<>>
        /\ starting = FALSE
        /\ turnNo = 1
        /\ pc = "chatting"
        /\ signalAborted = FALSE
        /\ outcome = "none"
        /\ userText = <<"u">>
        /\ parsed = NoParse
        /\ audio = <<>>
        /\ oaPc = "idle"
        /\ oaTurns = 0
        /\ oaUserText = <<>>
        /\ h = [HStart(<<>>, 0) EXCEPT !.reply = Some(reply), !.live = TRUE,
                                        !.scenario = scenario]

\* the chat request is answered with the response of the run
ChatAnswers ==
    /\ h.reply # Null
    /\ ChatReturns(TRUE, h.reply[1])

NextParse == ChatAnswers

SpecParse == InitParse /\ [][NextParse]_vars

\* The conversationHistory module on its own, under any caller of its exports.
LogEntries == {Entry(role, content) : role \in {"user", "assistant"}, content \in {<<"u">>, <<"f">>}}
Histories == UNION {[1..n -> LogEntries] : n \in 0..MaxLog}

notHistory == <<apiKey, svcVars, blobUrls, requests, appVars, turnVars, oaVars, setup, h>>

AddToHistory(role, content) ==
    /\ Len(conversationHistory) < MaxLog
    /\ conversationHistory' = addToHistory(conversationHistory, role, content)
    /\ UNCHANGED notHistory

ClearHistory ==
    /\ conversationHistory' = clearHistory
    /\ UNCHANGED notHistory

SetHistory(history) ==
    /\ conversationHistory' = setHistory(history)
    /\ UNCHANGED notHistory

NextHistory ==
    \/ \E entry \in LogEntries : AddToHistory(entry.role, entry.content)
    \/ ClearHistory
    \/ \E history \in Histories : SetHistory(history)

SpecHistory == Init /\ [][NextHistory]_vars

\* ------------------------------------------------------------------ properties
\* the call has just ended with one of `results`, and no other operation reset
\* the session while it was in flight
EndsWith(results) == pc # "done" /\ pc' = "done" /\ outcome' \in results /\ ~h'.reset

\* the audio promises the call collected are all settled, one per request issued
CollectedSettled ==
    /\ DOMAIN h.collected = 1..h.issued
    /\ \A i \in DOMAIN h.collected : h.collected[i] \in {"fulfilled", "rejected"}

\* C1: a sendVoiceMessage call that ends cancelled, wherever the abort reached
\* it, has changed the shared history in none of its steps, and leaves it with
\* the length and the entries it had when the call started.
C1_CancelledLeavesHistory ==
    /\ [](outcome = "Cancelled" => ~h.touched /\ h.appended = <<>>)
    /\ [][EndsWith({"Cancelled"}) => conversationHistory' = h.logAtStart]_vars

\* a call aborted during audio generation, after one audio was created, over a
\* history that already held entries
C1_Witness ==
    /\ outcome = "Cancelled"
    /\ h.abortedAt = "synthesizing"
    /\ \E i \in DOMAIN h.collected : h.collected[i] = "fulfilled"
    /\ h.logAtStart # <<>>
    /\ conversationHistory = h.logAtStart

\* C2: after a call ended cancelled, no blob URL created by one of its synthesis
\* requests is still allocated.
C2_CancelledHoldsNoUrl ==
    outcome = "Cancelled" => \A u \in blobUrls : u.turn # turnNo

\* C3: syncedMessageCount never exceeds the length of the shared history.
C3_SyncedWithinHistory == syncedMessageCount <= Len(conversationHistory)

\* a call that committed after the history was cleared while it was in flight
C3_Witness ==
    /\ outcome = "ok"
    /\ h.reset
    /\ h.logAtStart # <<>>
    /\ syncedMessageCount = 2
    /\ Len(conversationHistory) = 2

\* C4: a sendVoiceMessage call has changed the shared history only after every
\* synthesis request of the call was issued and answered and every audio
\* promise settled.
C4_AppendAfterSynthesis ==
    h.touched =>
        /\ pc = "done"
        /\ h.issued = Len(parsed.turns)
        /\ CollectedSettled
        /\ \A r \in requests : r.turn # turnNo

\* a multi-character call that committed after its two requests
C4_Witness == h.touched /\ parsed.path = "multi" /\ h.issued = MaxChars

\* C5: a call that was never aborted and whose synthesis requests failed, some
\* or all, has returned successfully and has appended the user entry and the
\* assistant entry with the combined text.
C5_SpeechFailureCommits ==
    (pc = "done" /\ ~signalAborted /\ \E i \in DOMAIN h.collected : h.collected[i] = "rejected")
        => /\ outcome = "ok"
           /\ h.appended = <<Entry("user", userText), Entry("assistant", parsed.combined)>>

\* C6: the failure of one synthesis request leaves every sibling's promise and
\* request as they were, and the results are collected only when each promise has
\* settled with its own outcome.
C6_SiblingsIndependent ==
    /\ [][\A i \in DOMAIN audio :
            (pc = "synthesizing" /\ ~signalAborted' /\ audio[i] = "pending"
             /\ audio'[i] = "rejected")
            => \A j \in DOMAIN audio \ {i} :
                 /\ audio'[j] = audio[j]
                 /\ (Handle(turnNo, j) \in requests') = (Handle(turnNo, j) \in requests)]_vars
    /\ [](pc = "done" /\ h.issued > 0 => CollectedSettled)

\* the first request failed and its sibling succeeded after it
C6_Witness ==
    /\ pc = "done"
    /\ outcome = "ok"
    /\ h.collected = <<"rejected", "fulfilled">>
    /\ blobUrls \cap {Handle(turnNo, 2)} # {}

\* C7: a call that ends with an empty transcription, a missing chat text or a
\* reply that fails validation has changed the shared history in none of its
\* steps and leaves it as it was when the call started.
C7_FatalAppendsNothing ==
    /\ [](outcome \in {"TranscriptionEmpty", "ChatResponseMissing", "SchemaValidation"}
            => ~h.touched /\ h.appended = <<>>)
    /\ [][EndsWith({"TranscriptionEmpty", "ChatResponseMissing", "SchemaValidation"})
            => conversationHistory' = h.logAtStart]_vars

\* a multi-character reply rejected by validation, over a history with entries
C7_Witness ==
    /\ outcome = "SchemaValidation"
    /\ parsed.path = "multi"
    /\ h.logAtStart # <<>>
    /\ conversationHistory = h.logAtStart

\* C8: once the cancellation token of a call is set, no step appends to the
\* shared history for the call and no step creates a blob URL for it.
C8_NothingAfterAbort ==
    [][(signalAborted /\ turnNo' = turnNo)
        => /\ {u \in blobUrls' : u.turn = turnNo} \subseteq blobUrls
           /\ h'.appended = h.appended]_vars

\* C9 as stated: a successful call leaves syncedMessageCount 2 above its value
\* when the call started (no other operation having reset the session).
C9_SyncedGrowsByTwo ==
    (outcome = "ok" /\ ~h.reset) => h.syncedAtEnd = h.syncedAtStart + 2

\* C9: a successful call, no other operation having reset the session, leaves
\* syncedMessageCount 2 above its value at the start when the sync check found
\* nothing to do, and 2 above the length of the history the sync check replayed
\* when it rebuilt the session.
C9_SyncedAfterTurn ==
    (outcome = "ok" /\ ~h.reset)
        => h.syncedAtEnd = (IF h.syncNeeded THEN h.syncLen ELSE h.syncedAtStart) + 2

\* a successful call whose sync check replayed the entries of the other backend
C9_Witness ==
    /\ outcome = "ok"
    /\ ~h.reset
    /\ h.syncNeeded
    /\ h.syncedAtStart = 2
    /\ h.syncLen = 4
    /\ h.syncedAtEnd = 6

\* C10: when the sync check found the shared history longer than
\* syncedMessageCount, then at the chat call the session has been created
\* exactly once, seeded with the whole shared history, and syncedMessageCount
\* equals its length.
C10_SyncRebuildsOnce ==
    (pc = "chatting" /\ h.syncNeeded /\ ~h.reset)
        => /\ chatSession # Null
           /\ chatSession[1].history = conversationHistory
           /\ syncedMessageCount = Len(conversationHistory)
           /\ h.syncCreates = 1

\* the other backend appended two entries after this backend's last call
C10_Witness ==
    /\ pc = "chatting"
    /\ h.syncNeeded
    /\ ~h.reset
    /\ h.syncedAtStart = 2
    /\ Len(conversationHistory) = 4
    /\ oaTurns = 1

\* C11: every step that clears the shared history, whichever handler takes it
\* and whether or not the client is initialised, leaves syncedMessageCount at 0
\* and pendingHistory empty.
C11_ClearResetsSync ==
    [][(HandleClearHistory \/ HandleExitScenario
        \/ \E scenario \in Scenarios : HandleStartPractice(scenario))
       => syncedMessageCount' = 0 /\ pendingHistory' = Null]_vars

\* the history was cleared while a call that started with two synced entries
\* was in flight
C11_Witness ==
    /\ h.reset
    /\ h.syncedAtStart = 2
    /\ h.logAtStart # <<>>
    /\ conversationHistory = <<>>
    /\ syncedMessageCount = 0
    /\ pendingHistory = Null

\* the signal was set at a moment at which the call awaited no wrapped request
SetInWindow == signalAborted /\ h.abortedAt = "none"

\* the chat call has returned a reply that parsed and validated
ReplyAccepted == parsed.error = "none" /\ parsed.path # "none"

\* C12: a call whose signal is set when the accepted chat reply reaches the check
\* before audio generation ends Cancelled, having issued no synthesis request
\* and changed nothing in the shared history.
C12_AbortBeforeSynthesis ==
    (SetInWindow /\ ReplyAccepted)
        => /\ pc = "done"
           /\ outcome = "Cancelled"
           /\ h.issued = 0
           /\ requests = {}
           /\ audio = <<>>
           /\ ~h.touched

\* a multi-character reply of two merged entries, stopped at the check
C12_Witness ==
    /\ SetInWindow
    /\ outcome = "Cancelled"
    /\ parsed.path = "multi"
    /\ Len(parsed.turns) = 2
    /\ requests = {}

\* C13: a call whose signal is set is not left waiting for a request: in
\* particular it never waits for the chat request.
C13_SetSignalNeverWaits == signalAborted => pc # "chatting"

\* C14: a call made while the client is not initialised and the key is available
\* creates the client and the session, for the active scenario if there is one,
\* and goes on to the transcription.
C14_FirstCallCreatesSession ==
    [][(pc = "idle" /\ ~ai /\ apiKey /\ pc' # "idle")
        => /\ ai'
           /\ chatSession' = Some(Chat(activeScenario, <<>>))
           /\ activeScenario' = activeScenario
           /\ pc' = "transcribing"]_vars

IsPrefix(a, b) == Len(a) <= Len(b) /\ SubSeq(b, 1, Len(a)) = a

\* C15: every step leaves the shared history as it is, appends to its end, or
\* empties it; no entry already there is changed, moved or removed otherwise.
C15_LogAppendOnly ==
    [][\/ IsPrefix(conversationHistory, conversationHistory')
       \/ conversationHistory' = <<>>]_vars

\* C16: on either backend a transcription that is empty after trimming is never
\* the user turn of a chat request and never an entry of the shared history.
C16_EmptyTranscriptionRejected ==
    /\ pc = "chatting" => Trim(userText) # <<>>
    /\ oaPc = "chat" => Trim(oaUserText) # <<>>
    /\ \A i \in DOMAIN conversationHistory :
         conversationHistory[i].role = "user" => Trim(conversationHistory[i].content) # <<>>

\* ------------------------------------------------- the chat response of a turn
\* the response of the run has been handled, in a scenario of several characters
MultiTurn ==
    /\ h.reply # Null
    /\ pc # "chatting"
    /\ IsMultiCharacter(activeScenario)
    /\ h.reply[1].kind = "multi"

Labelled == [i \in DOMAIN h.reply[1].responses |-> h.reply[1].responses[i].label]

\* the turn ended with the validation error: nothing asked of the TTS model,
\* nothing appended
Rejected ==
    /\ pc = "done"
    /\ outcome = "SchemaValidation"
    /\ parsed.error = "SchemaValidation"
    /\ requests = {}
    /\ conversationHistory = <<>>

Spaces(n) == [i \in 1..n |-> Space]

\* the label reads as character k: the word in either case, white space, the
\* number k with or without a leading zero, white space around allowed
Reads(label, k) ==
    \E lead \in 0..1, trail \in 0..1, gap \in 1..2, zeros \in 0..1,
       word \in {"Character", "character"} :
        label = Spaces(lead) \o <<word>> \o Spaces(gap) \o [i \in 1..zeros |-> "0"]
                \o <<Digits[k + 1]>> \o Spaces(trail)

RECURSIVE Squash(_)
\* a sequence without its adjacent repetitions
Squash(ids) ==
    IF Len(ids) <= 1 THEN ids
    ELSE IF ids[1] = ids[2] THEN Squash(Tail(ids))
    ELSE <<ids[1]>> \o Squash(Tail(ids))

CharacterIds(turns) == [i \in DOMAIN turns |-> turns[i].characterId]

\* C17 (as amended): in a scenario of N > 1 characters a label resolves when it
\* reads as character k for a k in 1..N, written with the word in either case,
\* any white space between word and number and around the label, and leading
\* zeros; it resolves to character k. A response with any other label ends the
\* turn with the fatal validation error.
C17_LabelsResolve ==
    MultiTurn =>
        IF \A i \in DOMAIN Labelled : \E k \in 1..activeScenario[1] : Reads(Labelled[i], k)
          THEN /\ parsed.error = "none"
               /\ CharacterIds(parsed.turns) =
                    Squash([i \in DOMAIN Labelled |->
                              CHOOSE k \in 1..activeScenario[1] : Reads(Labelled[i], k)])
          ELSE Rejected

\* C17 (as stated): only the labels "Character 1" .. "Character N" resolve; every
\* other label string is rejected.
C17_OnlyExactLabels ==
    MultiTurn =>
        IF \A i \in DOMAIN Labelled :
              \E k \in 1..activeScenario[1] : Labelled[i] = CharacterLabel(k)
          THEN parsed.error = "none"
          ELSE Rejected

C17_Witness ==
    /\ MultiTurn
    /\ activeScenario = Some(3)
    /\ Labelled = <<<<"character", Space, "1">>, CharacterLabel(3)>>
    /\ parsed.error = "none"
    /\ CharacterIds(parsed.turns) = <<1, 3>>

\* the entries of the accepted response before the merge
InputTurns == characterResponses(h.reply[1].responses)

Accepted == MultiTurn /\ parsed.error = "none"

\* the number of runs of one character among the first i entries
RunOf(x, i) == Cardinality({j \in 1..i : j = 1 \/ x[j].characterId # x[j - 1].characterId})

RunTexts(x, k, field) ==
    LET members == {i \in DOMAIN x : RunOf(x, i) = k}
        lo == CHOOSE i \in members : \A j \in members : i <= j
    IN  [n \in 1..Cardinality(members) |-> x[lo + n - 1][field]]

\* C18: the merged entries are the runs of adjacent entries of one character, in
\* input order: an entry of a character that follows another character's entry
\* starts a new entry, and each merged entry joins the texts of its run in order.
C18_MergesAdjacentOnly ==
    Accepted =>
        LET x == InputTurns
            m == parsed.turns
        IN  /\ Len(m) = RunOf(x, Len(x))
            /\ \A i \in DOMAIN x : m[RunOf(x, i)].characterId = x[i].characterId
            /\ \A k \in DOMAIN m :
                 /\ m[k].french = JoinAll(RunTexts(x, k, "french"))
                 /\ m[k].english = JoinAll(RunTexts(x, k, "english"))

C18_Witness ==
    /\ Accepted
    /\ CharacterIds(InputTurns) = <<1, 2, 1>>
    /\ CharacterIds(parsed.turns) = <<1, 2, 1>>
    /\ parsed.turns = InputTurns

NoAdjacentRepeat(x) == \A i \in 2..Len(x) : x[i].characterId # x[i - 1].characterId

AsText(x) == [i \in DOMAIN x |-> [characterId |-> x[i].characterId, text |-> x[i].french]]

\* C19: a sequence without adjacent entries of one character is merged to
\* itself, and merging the merged entries again changes nothing; so for the
\* reduction of parseMultiCharacterResponse.
C19_MergeIdempotent ==
    Accepted =>
        /\ NoAdjacentRepeat(InputTurns) => parsed.turns = InputTurns
        /\ mergedCharacterResponses(parsed.turns) = parsed.turns
        /\ NoAdjacentRepeat(InputTurns) => mergedResponses(AsText(InputTurns)) = AsText(InputTurns)
        /\ mergedResponses(mergedResponses(AsText(InputTurns))) = mergedResponses(AsText(InputTurns))

C19_Witness ==
    /\ Accepted
    /\ CharacterIds(InputTurns) = <<2, 2, 2>>
    /\ Len(parsed.turns) = 1
    /\ mergedCharacterResponses(parsed.turns) = parsed.turns

\* C20: the turn sends one synthesis request for each entry left by the merge,
\* that is one for each run of adjacent entries of one character.
C20_RequestPerMergedEntry ==
    Accepted =>
        /\ h.issued = Len(parsed.turns)
        /\ h.issued = RunOf(InputTurns, Len(InputTurns))
        /\ requests = {Handle(turnNo, i) : i \in 1..Len(parsed.turns)}
        /\ Len(audio) = Len(parsed.turns)

C20_Witness ==
    /\ Accepted
    /\ Labelled = <<CharacterLabel(1), CharacterLabel(1), CharacterLabel(2)>>
    /\ h.issued = 2
    /\ Cardinality(requests) = 2

\* -------------------------------------------------------- the value returned
\* the call has returned the response of a multi-character turn
ReturnedMulti == pc = "done" /\ h.returned # Null /\ parsed.path = "multi"

\* C21: the arrays of a returned multi-character response have one position for
\* each merged entry, in the order of the merged entries, with the character and
\* the texts of that entry, whichever audio generations failed.
C21_ReturnedFollowsMerged ==
    ReturnedMulti =>
        LET r == h.returned[1]
            m == parsed.turns
        IN  /\ Len(r.characters) = Len(m)
            /\ Len(r.modelText) = Len(m)
            /\ Len(r.audioUrl) = Len(m)
            /\ \A i \in DOMAIN m :
                 /\ r.characters[i].characterId = m[i].characterId
                 /\ r.characters[i].frenchText = m[i].french
                 /\ r.modelText[i] = Join(m[i].french, m[i].english)
                 /\ r.characters[i].audioGenerationFailed = (h.collected[i] = "rejected")
                 /\ (r.audioUrl[i] = Null) = (h.collected[i] = "rejected")

C21_Witness ==
    /\ ReturnedMulti
    /\ CharacterIds(parsed.turns) = <<1, 2, 1>>
    /\ h.collected = <<"rejected", "fulfilled", "rejected">>
    /\ Len(h.returned[1].characters) = 3

\* C22: every entry of a returned multi-character response has a French text
\* and an English text that are not empty.
C22_ReturnedTextsNonEmpty ==
    ReturnedMulti =>
        \A i \in DOMAIN parsed.turns :
            /\ parsed.turns[i].french # <<>>
            /\ parsed.turns[i].english # <<>>
            /\ h.returned[1].characters[i].frenchText # <<>>

\* french 1, english 1, french 2, english 2, ... of the entries
Interleaved(turns) ==
    [k \in 1..(2 * Len(turns)) |->
        IF k % 2 = 1 THEN turns[(k + 1) \div 2].french ELSE turns[k \div 2].english]

\* C23: the step in which a multi-character call returns appends two entries to
\* the shared history: the user entry with the transcription, then one
\* assistant entry with the French and English texts of all merged entries in
\* their order, whether or not their audio was generated.
C23_CommitAppendsUserThenAssistant ==
    [][(pc # "done" /\ pc' = "done" /\ outcome' = "ok" /\ parsed'.path = "multi")
        => conversationHistory' =
             conversationHistory
             \o <<Entry("user", userText), Entry("assistant", JoinAll(Interleaved(parsed'.turns)))>>]_vars

C23_Witness ==
    /\ ReturnedMulti
    /\ CharacterIds(parsed.turns) = <<1, 2, 3>>
    /\ h.collected = <<"fulfilled", "rejected", "fulfilled">>
    /\ conversationHistory =
         <<Entry("user", <<"u">>),
           Entry("assistant", <<"g", Space, "e", Space, Space, "e", Space, "g", Space, "e">>)>>

\* the hint the response itself carries: the top-level one, else the one of its
\* last entry, else none
CarriedHint ==
    LET reply == h.reply[1]
        n == Len(reply.responses)
    IN  IF reply.hint # Null THEN reply.hint
        ELSE IF n > 0 /\ reply.responses[n].hint # Null THEN reply.responses[n].hint
        ELSE Null

\* C24: the hint of an accepted multi-character response is the top-level hint
\* if the response has one, else the hint of its last entry if that has one,
\* and else there is none.
C24_HintFromResponseOnly == Accepted => parsed.hint = CarriedHint

\* C25: in the main conversation, the step that ends a turn with a failure that is
\* not a cancellation leaves the retry buffer holding the audio submitted and the
\* retry enabled, and the step that ends a turn with success leaves the buffer
\* empty and the retry disabled.
TurnEnds == pc' = "done" /\ (pc # "done" \/ turnNo' # turnNo)

C25_RetryBufferAfterTurn ==
    [][TurnEnds /\ ~processingAborted' =>
          IF outcome' = "ok"
            THEN lastChatAudio' = Null /\ ~canRetryChatAudio'
            ELSE lastChatAudio' = Some("audio") /\ canRetryChatAudio']_vars

\* C26: the step that ends a turn with a cancellation leaves the buffered audio
\* in place and leaves the retry offered, so that the same audio can be
\* resubmitted without a new recording.
RetryOffered == canRetryChatAudio /\ appState = "ERROR" /\ lastChatAudio # Null

C26_RetryAfterCancelled ==
    [][TurnEnds /\ processingAborted' => lastChatAudio' = Some("audio") /\ RetryOffered']_vars

\* C27: when a multi-character turn ends successfully and is displayed, the
\* message of every character whose synthesis failed offers a retry of that
\* character's audio.
C27_ScopedRetryOffered ==
    [][(TurnEnds /\ outcome' = "ok" /\ parsed'.path = "multi" /\ ~processingAborted')
         => \A i \in DOMAIN h'.collected :
               h'.collected[i] = "rejected"
                 => RetryButton(messages'[Len(messages') - Len(h'.collected) + i])]_vars

\* C28: at every step that issues a chat call, the context of the session the
\* message is sent on (the history it was created from and the exchanges it has
\* recorded since) has one entry per entry of the shared history, starts with the
\* entries it was created from, and syncedMessageCount is the length of the
\* shared history.
ContextLen(chat) == Len(chat.history) + 2 * chat.recorded

ChatIssued == pc # "chatting" /\ pc' = "chatting"

C28_ContextMatchesLog ==
    [][ChatIssued =>
          /\ syncedMessageCount' = Len(conversationHistory')
          /\ IsPrefix(chatSession'[1].history, conversationHistory')
          /\ ContextLen(chatSession'[1]) = Len(conversationHistory')]_vars

\* C29: once the shared history was cleared while a call was in flight (clear
\* history, start practice, exit scenario), no later step of that call appends
\* an entry to it.
C29_ClearedStaysCleared ==
    [][(h.cleared /\ turnNo' = turnNo) => h'.appended = h.appended]_vars

\* C30: once the user has aborted a turn, no later step of that turn (the
\* resolution of its stopRecording() promise, the answer to one of its synthesis
\* requests) changes the AbortController, the application state, the retry flag
\* and buffer, or the displayed messages, which by then belong to a later turn.
AbortedCount(stops) == Cardinality({i \in DOMAIN stops : stops[i]})

AbortedRecordingResolves ==
    /\ Len(stopping') = Len(stopping) - 1
    /\ AbortedCount(stopping') = AbortedCount(stopping) - 1

OrphanAnswered ==
    \E req \in requests \ requests' :
        req.idx > 0 /\ (req.turn # turnNo \/ pc # "synthesizing")

C30_AbortedTurnIsInert ==
    [][(AbortedRecordingResolves \/ OrphanAnswered)
         => UNCHANGED <<abortController, appState, canRetryChatAudio, lastChatAudio,
                        messages>>]_vars

\* C31: the chat response of a call is parsed in the shape (free conversation,
\* single-character, multi-character) of the scenario of the session the chat
\* message was sent on, whatever was set or cleared while the request was
\* pending.
ShapeOf(scenario) ==
    IF scenario = Null THEN "free" ELSE IF scenario[1] > 1 THEN "multi" ELSE "single"

ChatAnswered == pc = "chatting" /\ pc' # "chatting" /\ parsed'.path # "none"

C31_ShapeOfProducingSession ==
    [][ChatAnswered => parsed'.path = ShapeOf(h.scenario)]_vars

\* C32: between any two steps the shared history consists of complete turns: its
\* length is even, its odd entries are user entries and its even entries
\* assistant entries.
C32_LogInPairs ==
    /\ Len(conversationHistory) % 2 = 0
    /\ \A i \in DOMAIN conversationHistory :
          conversationHistory[i].role = (IF i % 2 = 1 THEN "user" ELSE "assistant")

\* the other backend has just committed the second turn and awaits its speech
C32_Witness == oaPc = "tts" /\ Len(conversationHistory) = 4 /\ turnNo = 1 /\ outcome = "ok"

\* C33: a call whose result processAudioMessage discards because the user
\* aborted (processingAborted is set when the call ends) has appended nothing
\* to the shared history.
C33_DiscardedTurnNotCommitted ==
    [][TurnEnds /\ processingAborted' => h'.appended = <<>>]_vars

\* C34: a call that ends by throwing has appended nothing to the shared history,
\* on either backend: a sendVoiceMessage call that ends with another outcome
\* than ok, and a sendVoiceMessageOpenAI call whose STT, chat or TTS request
\* fails.
OaThrows == oaPc # "idle" /\ oaPc' = "idle" /\ blobUrls' = blobUrls

C34_ThrownTurnAppendsNothing ==
    /\ [][TurnEnds /\ outcome' # "ok" => h'.appended = <<>>]_vars
    /\ [][OaThrows => h.oaAppended = <<>>]_vars

\* ------------------------------------------------------------------ playback
\* a multi-character response has been delivered: its messages are displayed
TurnDelivered ==
    pc = "done" /\ outcome = "ok" /\ parsed.path = "multi" /\ messages # <<>>

HasAudioHandle(id) == HasAudio(messages, id)

\* the messages that have an audio handle, in the order of the turn
AudioIds == SelectSeq([i \in DOMAIN messages |-> i], HasAudioHandle)

\* C35: after a multi-character response is delivered, auto-play eventually
\* starts the audio of every message of it that has an audio handle, in the
\* order of the turn, also when an earlier character has none (every audio
\* loads and every audio that plays ends; the user leaves the controls alone).
C35_AllAudiosAutoPlayed ==
    TurnDelivered ~> (player.manual \/ player.autoPlayed = AudioIds)

\* the audio of message id starts; the user starts it with the controls
Starts(id) == id \notin player.playing /\ id \in player'.playing
UserStarts(id) == player' = [player EXCEPT !.playing = @ \cup {id}, !.manual = TRUE]
AfterCharacter(id) == id - 1 \in DOMAIN messages /\ messages[id - 1].role = "model"

\* C36 as stated: at most one character audio is playing at any time, and the
\* audio of a character starts only after the audio of the character before it
\* has ended.
C36_OneAtATimeInOrder ==
    /\ [](Cardinality(player.playing) <= 1)
    /\ [][\A id \in MessageIds :
            Starts(id) /\ AfterCharacter(id) => id - 1 \in player'.ended]_vars

\* C36, amended: while the user leaves the controls of the audio elements alone
\* at most one audio is playing; and auto-play starts the audio of a character
\* only after the audio of the character before it has ended.
C36_AutoPlayOneAtATimeInOrder ==
    /\ [](~player.manual => Cardinality(player.playing) <= 1)
    /\ [][\A id \in MessageIds :
            Starts(id) /\ ~UserStarts(id) /\ AfterCharacter(id)
              => id - 1 \in player'.ended]_vars

\* the third character's audio plays after the first two have played and ended
C36_Witness ==
    /\ TurnDelivered
    /\ ~player.manual
    /\ player.autoPlayed = <<2, 3, 4>>
    /\ player.ended = {2, 3}
    /\ player.playing = {4}

\* C37: after a multi-character response is delivered, no recording is under
\* way before the audio of every message of it has played to its end.
C37_NoRecordingBeforeAudiosEnd ==
    (TurnDelivered /\ appState = "RECORDING")
      => \A id \in DOMAIN messages : HasAudio(messages, id) => id \in player.ended

\* ------------------------------------------------------------- the end of a turn
\* a turn is under way: a stopRecording() promise of a turn the user has not
\* aborted is pending, or a call awaits a request
TurnInFlight ==
    \/ InFlight
    \/ \E i \in DOMAIN stopping : ~stopping[i]
    \/ \E req \in requests : req.idx = 0

\* C38: when every request is answered, the application does not stay in
\* PROCESSING: every call in flight ends, with one outcome that stays, and the
\* state is PROCESSING only while a turn is under way.
C38_TurnEndsAndLeavesProcessing ==
    /\ (appState = "PROCESSING") ~> (appState # "PROCESSING")
    /\ InFlight ~> (pc = "done" /\ outcome # "none")
    /\ [](appState = "PROCESSING" => TurnInFlight)
    /\ [][pc = "done" /\ pc' = "done" => outcome' = outcome]_vars

\* the user has aborted a call during its synthesis, which ended cancelled
\* with the application back in IDLE
C38_Witness ==
    /\ pc = "done"
    /\ outcome = "Cancelled"
    /\ h.abortedAt = "synthesizing"
    /\ appState = "IDLE"
    /\ ~TurnInFlight

\* C39: in every response a call returns, an entry is flagged
\* audioGenerationFailed exactly when it has no audio URL: each character of a
\* multi-character response, and the one reply of the other responses.
C39_FailedIffNoAudio ==
    (pc = "done" /\ h.returned # Null) =>
        LET r == h.returned[1] IN
        IF parsed.path = "multi"
          THEN \A i \in DOMAIN r.characters :
                 r.characters[i].audioGenerationFailed <=> (r.audioUrl[i] = Null)
          ELSE r.audioGenerationFailed <=> (r.audioUrl = Null)

\* a returned response of three characters, the second without audio
C39_Witness ==
    /\ ReturnedMulti
    /\ Len(h.returned[1].characters) = 3
    /\ h.returned[1].audioUrl[1] # Null
    /\ h.returned[1].characters[2].audioGenerationFailed
    /\ h.returned[1].audioUrl[3] # Null

\* C40: whenever the retry of a call site is enabled, the audio stored for that
\* call site is there: canRetryChatAudio with lastChatAudio,
\* canRetryDescriptionAudio with lastDescriptionAudio.
C40_RetryHasAudio ==
    /\ canRetryChatAudio => lastChatAudio # Null
    /\ setup.canRetryDescriptionAudio => setup.lastDescriptionAudio # Null
====
